---------------------------- MODULE Spec2Model ----------------------------
(***************************************************************************)
(* Model of cardano-mass-payments: the grouping engine, the preparation    *)
(* step, the UTxO adjustment engine, the plan/script writer and the        *)
(* generated bash script's submission state machine.                       *)
(*                                                                         *)
(* The ledger client (cardano-cli) is external.  Its two oracles are       *)
(* modelled by what they are documented to return: the byte size of a      *)
(* transaction grows with every input and with the serialised length of    *)
(* every output, and the minimum fee is txFeeFixed + txFeePerByte * size.  *)
(***************************************************************************)
EXTENDS Integers, Sequences, FiniteSets, TLC

(***************************************************************************)
(* Bounds of the model.                                                    *)
(***************************************************************************)
MaxOutputs == 4      \* longest payment list handed to group_output_utxo alone
LoopFuel == 12       \* iterations after which a loop is reported as not returning
MaxPayments == 3     \* longest payments file of a planning run
MaxWallet == 3       \* most UTxOs in the source wallet
MaxDustBatches == 2  \* most dust batches of a saved plan
MaxGroups == 2       \* most payment groups of a saved plan
MaxGenerations == 3  \* times the script of one plan file is generated

(***************************************************************************)
(* Data.                                                                   *)
(***************************************************************************)
SourceAddress == "src"
ShortAddress == "A"
LongAddress == "B"

PaymentDetail(address, amount) == [address |-> address, amount |-> amount]

\* The payments a payments CSV file may hold: two address lengths, several amounts.
PaymentKinds ==
    { PaymentDetail(ShortAddress, 2), PaymentDetail(LongAddress, 3),
      PaymentDetail(ShortAddress, 5) }

Min(a, b) == IF a < b THEN a ELSE b

\* Python's list[lo:hi] on a 0-based list.
Slice(s, lo, hi) ==
    IF lo >= Min(hi, Len(s)) THEN << >> ELSE SubSeq(s, lo + 1, Min(hi, Len(s)))

SeqsUpTo(S, n) == UNION { [1..k -> S] : k \in 0..n }

RECURSIVE SumAmount(_)
SumAmount(s) == IF s = << >> THEN 0 ELSE Head(s).amount + SumAmount(Tail(s))

RECURSIVE Concat(_)
Concat(ss) == IF ss = << >> THEN << >> ELSE Head(ss) \o Concat(Tail(ss))

(***************************************************************************)
(* The byte-size oracle and the fee oracle.                                *)
(***************************************************************************)
AddrBytes(address) == IF address = LongAddress THEN 2 ELSE 1

RECURSIVE OutBytes(_)
OutBytes(outs) ==
    IF outs = << >> THEN 0 ELSE AddrBytes(Head(outs).address) + OutBytes(Tail(outs))

\* Serialised length of a transaction with num_input inputs paying outs.
DraftBytes(num_input, outs, withdrawal) ==
    1 + num_input + OutBytes(outs) + (IF withdrawal THEN 1 ELSE 0)

\* get_transaction_byte_size: EmptyList before any external call, else the size.
GetTransactionByteSize(num_input, outs, withdrawal) ==
    IF num_input < 1 \/ Len(outs) < 1
    THEN [error |-> "EmptyList", size |-> 0]
    ELSE [error |-> "none", size |-> DraftBytes(num_input, outs, withdrawal)]

\* get_total_amount_plus_fee: the outputs' total and the minimum fee of the draft
\* (built without the withdrawal), txFeeFixed + txFeePerByte * size.
GetTotalAmountPlusFee(num_input, outs, pp) ==
    IF num_input < 1 \/ Len(outs) < 1
    THEN [error |-> "EmptyList", amount |-> 0, fee |-> 0]
    ELSE [error |-> "none", amount |-> SumAmount(outs),
          fee |-> pp.txFeeFixed
                  + pp.txFeePerByte * DraftBytes(num_input, outs, FALSE)]

\* calculate-min-fee on a draft with placeholder inputs and outputs.
GetTransactionFee(num_input, num_output, num_witness, pp) ==
    IF num_input < 1 \/ num_output < 1 \/ num_witness < 1
    THEN [error |-> "EmptyList", fee |-> 0]
    ELSE [error |-> "none",
          fee |-> pp.txFeeFixed
                  + pp.txFeePerByte * (1 + num_input + num_output + num_witness)]

(***************************************************************************)
(* group_output_utxo                                                       *)
(***************************************************************************)
\* The capacity search: probe the prefix of length count + bin_index.
RECURSIVE SearchGroupCount(_, _, _, _, _)
SearchGroupCount(output_list, max_tx_size, bin_index, count, fuel) ==
    IF bin_index <= 0 THEN [returns |-> TRUE, count |-> count]
    ELSE IF fuel = 0 THEN [returns |-> FALSE, count |-> count]
    ELSE LET tx_size ==
                 GetTransactionByteSize(
                     1, Slice(output_list, 0, count + bin_index), FALSE).size
         IN  IF tx_size > max_tx_size
             THEN SearchGroupCount(output_list, max_tx_size,
                                   bin_index \div 2, count, fuel - 1)
             ELSE SearchGroupCount(output_list, max_tx_size,
                                   bin_index, count + bin_index, fuel - 1)

\* A slicing that stops after its first chunk.
SliceFirstChunkOnly(output_list, count, index, fuel) ==
    [returns |-> TRUE, groups |-> << Slice(output_list, index, index + count) >>]

\* The slicing loop: consecutive chunks of max_tx_per_group_count payments.
RECURSIVE SliceGroups(_, _, _, _)
SliceGroups(output_list, count, index, fuel) ==
    IF index >= Len(output_list) THEN [returns |-> TRUE, groups |-> << >>]
    ELSE IF fuel = 0 THEN [returns |-> FALSE, groups |-> << >>]
    ELSE LET rest == SliceGroups(output_list, count, index + count, fuel - 1)
         IN  [returns |-> rest.returns,
              groups |-> << Slice(output_list, index, index + count) >> \o rest.groups]

GroupOutputUtxo(output_list, max_tx_size) ==
    LET initial == GetTransactionByteSize(1, output_list, FALSE)
    IN  IF initial.error # "none"
        THEN [status |-> initial.error, groups |-> << >>, count |-> 0]
        ELSE IF initial.size < max_tx_size
        THEN [status |-> "ok", groups |-> << output_list >>,
              count |-> Len(output_list)]
        ELSE LET search ==
                     SearchGroupCount(
                         output_list, max_tx_size,
                         (Len(output_list) * max_tx_size) \div initial.size,
                         0, LoopFuel)
                 sliced == SliceGroups(output_list, search.count, 0, LoopFuel)
             IN  IF ~search.returns \/ ~sliced.returns
                 THEN [status |-> "no_return", groups |-> << >>,
                       count |-> search.count]
                 ELSE [status |-> "ok", groups |-> sliced.groups,
                       count |-> search.count]

(***************************************************************************)
(* preparation_step                                                        *)
(***************************************************************************)
InputUTXO(address, amount, dust_collected_utxo) ==
    [address |-> address, amount |-> amount,
     dust_collected_utxo |-> dust_collected_utxo]

NoRewards == [present |-> FALSE, stake_amount |-> 0]

\* list.sort(key=amount, reverse=True): stable, largest amount first.
RECURSIVE InsertDesc(_, _)
InsertDesc(sorted, x) ==
    IF sorted = << >> THEN << x >>
    ELSE IF Head(sorted).amount >= x.amount
         THEN << Head(sorted) >> \o InsertDesc(Tail(sorted), x)
         ELSE << x >> \o sorted

RECURSIVE SortDesc(_)
SortDesc(s) ==
    IF s = << >> THEN << >>
    ELSE InsertDesc(SortDesc(SubSeq(s, 1, Len(s) - 1)), s[Len(s)])

\* Take UTxOs in order until the required amount is covered; the result is the
\* number of UTxOs taken.
RECURSIVE SelectInputs(_, _, _, _)
SelectInputs(input_utxo_list, temp_o_required_amt, temp_input_index, temp_input_amt) ==
    IF temp_input_amt < temp_o_required_amt /\ temp_input_index < Len(input_utxo_list)
    THEN SelectInputs(input_utxo_list, temp_o_required_amt, temp_input_index + 1,
                      temp_input_amt + input_utxo_list[temp_input_index + 1].amount)
    ELSE temp_input_index

PaymentGroup(index, payment_details, amount, fee, tx_size) ==
    [index |-> index, payment_details |-> payment_details, amount |-> amount,
     fee |-> fee, tx_size |-> tx_size]

InitDetails(error, output_details, wallet_utxos, require_dust_collection, stake_reward_details, dust_group_details) ==
    [error |-> error, output_details |-> output_details,
     wallet_utxos |-> wallet_utxos,
     require_dust_collection |-> require_dust_collection,
     stake_reward_details |-> stake_reward_details,
     dust_group_details |-> dust_group_details,
     required_amount |-> 0, current_amount |-> 0]

FailedStep(error) == InitDetails(error, << >>, << >>, FALSE, NoRewards, << >>)

\* Lines 293-323: amount and fee of every initial group.
OutputGroupDetails(output_group_list, pp) ==
    [i \in 1..Len(output_group_list) |->
        LET tf == GetTotalAmountPlusFee(1, output_group_list[i], pp)
        IN  PaymentGroup(i - 1, output_group_list[i], tf.amount, tf.fee, 0)]

RECURSIVE SumAmountPlusFee(_)
SumAmountPlusFee(groups) ==
    IF groups = << >> THEN 0
    ELSE Head(groups).amount + Head(groups).fee + SumAmountPlusFee(Tail(groups))

PreparationStep(output_list, wallet_utxo_details, stake_reward_details, pp) ==
    LET grouped == GroupOutputUtxo(output_list, pp.max_tx_size)
        output_group_details == OutputGroupDetails(grouped.groups, pp)
        total_output_amount == SumAmountPlusFee(output_group_details)
        total_input_amount ==
            SumAmount(wallet_utxo_details) + stake_reward_details.stake_amount
        sorted == SortDesc(wallet_utxo_details)
        num_input == SelectInputs(sorted, total_output_amount, 0, 0)
        output_arg_list ==
            IF Len(grouped.groups) = 1 THEN grouped.groups[1]
            ELSE [i \in 1..Len(output_group_details) |->
                     PaymentDetail(SourceAddress,
                                   output_group_details[i].amount
                                   + output_group_details[i].fee)]
    IN  IF grouped.status # "ok" THEN FailedStep(grouped.status)
        ELSE IF total_input_amount < total_output_amount
        THEN [FailedStep("InsufficientBalance") EXCEPT
                 !.required_amount = total_output_amount,
                 !.current_amount = total_input_amount]
        ELSE IF num_input < 1 THEN FailedStep("ScriptError")
        ELSE InitDetails("none", output_group_details, sorted,
                         DraftBytes(num_input, output_arg_list, FALSE)
                             > pp.max_tx_size,
                         stake_reward_details, << >>)

(***************************************************************************)
(* dust_collect                                                            *)
(***************************************************************************)
PreparationDetail(prep_input, prep_output) ==
    [prep_input |-> prep_input, prep_output |-> prep_output]

RECURSIVE SelectBelow(_, _)
SelectBelow(utxos, threshold) ==
    IF utxos = << >> THEN << >>
    ELSE IF Head(utxos).amount < threshold
         THEN << Head(utxos) >> \o SelectBelow(Tail(utxos), threshold)
         ELSE SelectBelow(Tail(utxos), threshold)

RECURSIVE SelectAtLeast(_, _)
SelectAtLeast(utxos, threshold) ==
    IF utxos = << >> THEN << >>
    ELSE IF Head(utxos).amount < threshold
         THEN SelectAtLeast(Tail(utxos), threshold)
         ELSE << Head(utxos) >> \o SelectAtLeast(Tail(utxos), threshold)

AddressesOf(utxos) == { utxos[i].address : i \in 1..Len(utxos) }

\* A synthetic input that carries no amount.
DustCollectedUtxoOfNothing(prep_output) ==
    InputUTXO(prep_output[1].address, 0, TRUE)

\* Lines 539-545 and 612-618: the synthetic input that stands for the output of
\* a consolidation batch.
DustCollectedUtxo(prep_output) ==
    InputUTXO(prep_output[1].address, prep_output[1].amount, TRUE)

\* A sweep that stops after a batch of the first dust UTxO.
DustBatchesFirstOnly(dust_utxo_list, target_address, pp, s) ==
    [error |-> "none",
     groups |->
         IF dust_utxo_list = << >> THEN << >>
         ELSE << PreparationDetail(
                     << dust_utxo_list[1] >>,
                     << PaymentDetail(target_address, dust_utxo_list[1].amount) >>) >>]

\* Lines 518-605: the batches that sweep one target address's dust.  s holds
\* the loop's local variables.
RECURSIVE DustBatches(_, _, _, _)
DustBatches(dust_utxo_list, target_address, pp, s) ==
    IF ~(s.dust_start_index < Len(dust_utxo_list))
    THEN [error |-> "none", groups |-> s.final_address_dust_group]
    ELSE IF s.temp_index = 0
    THEN DustBatches(dust_utxo_list, target_address, pp,
             [final_address_dust_group |->
                  Append(s.final_address_dust_group,
                         PreparationDetail(s.input_dust_list, s.dust_payment_output)),
              temp_index |-> Len(dust_utxo_list),
              dust_start_index |-> s.dust_start_index + s.dust_input_index,
              dust_input_index |-> 0,
              dust_payment_output |-> << >>,
              input_dust_list |-> << >>])
    ELSE
    LET previous == s.final_address_dust_group
        last == previous[Len(previous)]
        chained_missing == previous # << >> /\ last.prep_output = << >>
        temp_dust_inputs ==
            Slice(dust_utxo_list, s.dust_start_index,
                  s.dust_start_index + s.dust_input_index + s.temp_index)
            \o (IF previous = << >> THEN << >>
                ELSE << DustCollectedUtxo(last.prep_output) >>)
        temp_input_total == SumAmount(temp_dust_inputs)
        temp_input_fee ==
            GetTransactionFee(Len(temp_dust_inputs), 1,
                              Cardinality(AddressesOf(temp_dust_inputs)), pp)
        temp_dust_payment_output ==
            << PaymentDetail(target_address, temp_input_total - temp_input_fee.fee) >>
        tx_size ==
            GetTransactionByteSize(Len(temp_dust_inputs), temp_dust_payment_output,
                                   FALSE).size
        fits == ~(tx_size >= pp.max_tx_size)
        dust_input_index ==
            IF fits THEN s.dust_input_index + s.temp_index ELSE s.dust_input_index
    IN  IF chained_missing
        THEN [error |-> "IndexError", groups |-> previous]
        ELSE IF temp_input_fee.error # "none"
        THEN [error |-> temp_input_fee.error, groups |-> previous]
        ELSE DustBatches(dust_utxo_list, target_address, pp,
                 [s EXCEPT
                     !.temp_index =
                         IF dust_input_index > Len(dust_utxo_list) THEN 0
                         ELSE IF fits THEN s.temp_index ELSE s.temp_index \div 2,
                     !.dust_input_index = dust_input_index,
                     !.input_dust_list =
                         IF fits THEN temp_dust_inputs ELSE s.input_dust_list,
                     !.dust_payment_output =
                         IF fits THEN temp_dust_payment_output
                         ELSE s.dust_payment_output])

\* dust_collect with DustCollectionMethod.COLLECT_TO_SOURCE: one target
\* address, the source address.
DustCollect(init_details, dust_collection_threshold, pp) ==
    LET input_utxos == init_details.wallet_utxos
        new_wallet_utxos == SelectAtLeast(input_utxos, dust_collection_threshold)
        dust_utxos == SortDesc(SelectBelow(input_utxos, dust_collection_threshold))
        batches ==
            DustBatches(dust_utxos, SourceAddress, pp,
                [final_address_dust_group |-> << >>,
                 temp_index |-> Len(dust_utxos), dust_start_index |-> 0,
                 dust_input_index |-> 0, dust_payment_output |-> << >>,
                 input_dust_list |-> << >>])
        dust_groups == batches.groups
        last == dust_groups[Len(dust_groups)]
    IN  IF batches.error # "none" THEN FailedStep(batches.error)
        ELSE IF dust_groups = << >> THEN FailedStep("IndexError")
        ELSE IF last.prep_output = << >> THEN FailedStep("IndexError")
        ELSE [init_details EXCEPT
                 !.dust_group_details = dust_groups,
                 !.wallet_utxos =
                     SortDesc(Append(new_wallet_utxos,
                                     DustCollectedUtxo(last.prep_output))),
                 !.require_dust_collection = FALSE]

\* The two values of DustCollectionMethod.
CollectToSource == "COLLECT_TO_SOURCE"
CollectPerAddress == "COLLECT_PER_ADDRESS"

\* Lines 496-500: the dust of every owning address, in the order in which the
\* addresses first appear.
RECURSIVE GroupByAddress(_, _)
GroupByAddress(dust_utxos, dust_utxo_groups) ==
    IF dust_utxos = << >> THEN dust_utxo_groups
    ELSE LET utxo_detail == Head(dust_utxos)
             known == { i \in 1..Len(dust_utxo_groups) :
                          dust_utxo_groups[i].address = utxo_detail.address }
         IN  GroupByAddress(Tail(dust_utxos),
                 IF known = {}
                 THEN Append(dust_utxo_groups,
                             [address |-> utxo_detail.address,
                              utxos |-> << utxo_detail >>])
                 ELSE [i \in 1..Len(dust_utxo_groups) |->
                          IF i \in known
                          THEN [dust_utxo_groups[i] EXCEPT
                                   !.utxos = Append(@, utxo_detail)]
                          ELSE dust_utxo_groups[i]])

\* Lines 492-500: the map from target address to its dust, as the sequence of
\* its entries in insertion order.
DustUtxoGroups(dust_utxos, source_address, dust_collection_method) ==
    IF dust_collection_method = CollectToSource
    THEN << [address |-> source_address, utxos |-> dust_utxos] >>
    ELSE GroupByAddress(dust_utxos, << >>)

\* Lines 510-606: the batches of every target address; the first exception
\* ends the call.
RECURSIVE FinalDustGroupDetails(_, _, _)
FinalDustGroupDetails(dust_utxo_groups, pp, final_dust_group_details) ==
    IF dust_utxo_groups = << >>
    THEN [error |-> "none", details |-> final_dust_group_details]
    ELSE LET target == Head(dust_utxo_groups)
             batches ==
                 DustBatches(target.utxos, target.address, pp,
                     [final_address_dust_group |-> << >>,
                      temp_index |-> Len(target.utxos), dust_start_index |-> 0,
                      dust_input_index |-> 0, dust_payment_output |-> << >>,
                      input_dust_list |-> << >>])
         IN  IF batches.error # "none"
             THEN [error |-> batches.error, details |-> final_dust_group_details]
             ELSE FinalDustGroupDetails(Tail(dust_utxo_groups), pp,
                      Append(final_dust_group_details,
                             [address |-> target.address,
                              groups |-> batches.groups]))

\* Lines 608-619: one synthetic UTxO per entry of the dust group map, made from
\* the entry's last batch.
RECURSIVE AppendDustCollected(_, _)
AppendDustCollected(final_dust_group_details, new_wallet_utxos) ==
    IF final_dust_group_details = << >>
    THEN [error |-> "none", wallet_utxos |-> new_wallet_utxos]
    ELSE LET dust_groups == Head(final_dust_group_details).groups
             last == dust_groups[Len(dust_groups)]
         IN  IF dust_groups = << >>
             THEN [error |-> "IndexError", wallet_utxos |-> new_wallet_utxos]
             ELSE IF last.prep_output = << >>
             THEN [error |-> "IndexError", wallet_utxos |-> new_wallet_utxos]
             ELSE AppendDustCollected(Tail(final_dust_group_details),
                      Append(new_wallet_utxos, DustCollectedUtxo(last.prep_output)))

\* dust_collect with either collection method, on a wallet whose UTxOs may
\* belong to several source addresses.
DustCollectBy(input_utxos, source_address, dust_collection_method, dust_collection_threshold, pp) ==
    LET new_wallet_utxos == SelectAtLeast(input_utxos, dust_collection_threshold)
        dust_utxos == SortDesc(SelectBelow(input_utxos, dust_collection_threshold))
        final ==
            FinalDustGroupDetails(
                DustUtxoGroups(dust_utxos, source_address, dust_collection_method),
                pp, << >>)
        appended == AppendDustCollected(final.details, new_wallet_utxos)
    IN  IF final.error # "none"
        THEN [status |-> "raised", error |-> final.error,
              dust_group_details |-> << >>, wallet_utxos |-> << >>]
        ELSE IF appended.error # "none"
        THEN [status |-> "raised", error |-> appended.error,
              dust_group_details |-> << >>, wallet_utxos |-> << >>]
        ELSE [status |-> "returned", error |-> "none",
              dust_group_details |-> final.details,
              wallet_utxos |-> SortDesc(appended.wallet_utxos)]

(***************************************************************************)
(* adjust_utxos                                                            *)
(***************************************************************************)
CardanoMinimumAmount == 1000000

Unbound == -1    \* a local variable that was never assigned

\* list.insert(i, x) on a 0-based list.
InsertAt(s, i, x) ==
    LET k == Min(i, Len(s)) IN SubSeq(s, 1, k) \o << x >> \o SubSeq(s, k + 1, Len(s))

\* list.pop(i) on a 0-based list: the list that is left.
RemoveAt(s, i) == SubSeq(s, 1, i) \o SubSeq(s, i + 2, Len(s))

\* list.sort(key=index): ascending group index.
RECURSIVE InsertByIndex(_, _)
InsertByIndex(sorted, g) ==
    IF sorted = << >> THEN << g >>
    ELSE IF Head(sorted).index <= g.index
         THEN << Head(sorted) >> \o InsertByIndex(Tail(sorted), g)
         ELSE << g >> \o sorted

RECURSIVE SortByIndex(_)
SortByIndex(s) ==
    IF s = << >> THEN << >>
    ELSE InsertByIndex(SortByIndex(SubSeq(s, 1, Len(s) - 1)), s[Len(s)])

\* Lines 705-720: re-measure every non-empty group, over_max or under_max.
RECURSIVE ClassifyGroups(_, _)
ClassifyGroups(details, pp) ==
    IF details = << >> THEN [over |-> << >>, under |-> << >>]
    ELSE LET g == Head(details)
             rest == ClassifyGroups(Tail(details), pp)
             tx_size == GetTransactionByteSize(1, g.payment_details, FALSE).size
             measured == [g EXCEPT !.tx_size = tx_size]
         IN  IF Len(g.payment_details) = 0 THEN rest
             ELSE IF tx_size > pp.max_tx_size
             THEN [over |-> << measured >> \o rest.over, under |-> rest.under]
             ELSE [over |-> rest.over, under |-> << measured >> \o rest.under]

\* Lines 728-744: move the first payment of an oversized group to the spill
\* list until the group fits.
RECURSIVE TrimGroup(_, _, _)
TrimGroup(g, temp_utxo_list, pp) ==
    IF ~(g.tx_size > pp.max_tx_size)
    THEN [error |-> "none", group |-> g, temp_utxo_list |-> temp_utxo_list]
    ELSE LET o_group_list == Tail(g.payment_details)
             spilled == Append(temp_utxo_list, Head(g.payment_details))
             tf == GetTotalAmountPlusFee(1, o_group_list, pp)
             sz == GetTransactionByteSize(1, o_group_list, FALSE)
         IN  IF tf.error # "none"
             THEN [error |-> tf.error, group |-> g, temp_utxo_list |-> spilled]
             ELSE TrimGroup(
                      [g EXCEPT !.payment_details = o_group_list,
                                !.amount = tf.amount, !.fee = tf.fee,
                                !.tx_size = sz.size],
                      spilled, pp)

RECURSIVE TrimGroups(_, _, _)
TrimGroups(over_max_group, temp_utxo_list, pp) ==
    IF over_max_group = << >>
    THEN [error |-> "none", groups |-> << >>, temp_utxo_list |-> temp_utxo_list]
    ELSE LET first == TrimGroup(Head(over_max_group), temp_utxo_list, pp)
             rest == TrimGroups(Tail(over_max_group), first.temp_utxo_list, pp)
         IN  IF first.error # "none"
             THEN [error |-> first.error, groups |-> << >>,
                   temp_utxo_list |-> first.temp_utxo_list]
             ELSE [error |-> rest.error, groups |-> << first.group >> \o rest.groups,
                   temp_utxo_list |-> rest.temp_utxo_list]

\* Lines 756-781: try every spilled payment on an undersized group; the group's
\* tx_size, amount and fee are those of the last probe.
RECURSIVE PackGroup(_, _, _, _, _)
PackGroup(g, temp_utxo_list, temp_utxo_index, last, pp) ==
    IF ~(temp_utxo_index < Len(temp_utxo_list))
    THEN [group |-> [g EXCEPT !.tx_size = last.tx_size, !.amount = last.amount,
                              !.fee = last.fee],
          temp_utxo_list |-> temp_utxo_list]
    ELSE LET temp_u_group_list ==
                 g.payment_details \o << temp_utxo_list[temp_utxo_index + 1] >>
             tf == GetTotalAmountPlusFee(1, temp_u_group_list, pp)
             sz == GetTransactionByteSize(1, temp_u_group_list, FALSE)
             probe == [tx_size |-> sz.size, amount |-> tf.amount, fee |-> tf.fee]
         IN  IF sz.size <= pp.max_tx_size
             THEN PackGroup([g EXCEPT !.payment_details = temp_u_group_list],
                            RemoveAt(temp_utxo_list, temp_utxo_index),
                            temp_utxo_index, probe, pp)
             ELSE PackGroup(g, temp_utxo_list, temp_utxo_index + 1, probe, pp)

RECURSIVE PackGroups(_, _, _)
PackGroups(under_max_group, temp_utxo_list, pp) ==
    IF under_max_group = << >>
    THEN [groups |-> << >>, temp_utxo_list |-> temp_utxo_list]
    ELSE LET u == Head(under_max_group)
             first == PackGroup(u, temp_utxo_list, 0,
                                [tx_size |-> u.tx_size, amount |-> u.amount,
                                 fee |-> u.fee], pp)
             rest == PackGroups(Tail(under_max_group), first.temp_utxo_list, pp)
         IN  [groups |-> << first.group >> \o rest.groups,
              temp_utxo_list |-> rest.temp_utxo_list]

NoSelection(error, required_amount, current_amount, tmp_size) ==
    [error |-> error, required_amount |-> required_amount,
     current_amount |-> current_amount, count |-> 0, tmp_size |-> tmp_size,
     add_change_to_fee |-> FALSE, tfee |-> 0]

\* A fixed point that never records the number of inputs it selected: unless
\* the first pass selects no input at all, it never sees the same count twice.
InputSelectionWithoutProgress(temp_prep_list, env, initial_check, last_input_length, tmp_size, fuel) ==
    LET tf == GetTotalAmountPlusFee(1, temp_prep_list, env.pp)
        input_total == SumAmount(env.input_utxo_list) + env.reward_details.stake_amount
    IN  IF tf.error # "none" THEN NoSelection(tf.error, 0, 0, tmp_size)
        ELSE IF input_total < tf.amount + tf.fee
        THEN NoSelection("InsufficientBalance", tf.amount + tf.fee, input_total,
                         tmp_size)
        ELSE NoSelection("no_return", 0, 0, tmp_size)

\* Lines 847-910: the fee / input-count fixed point of one round.  env holds
\* the wallet, the reward details and the protocol parameters.
RECURSIVE InputSelection(_, _, _, _, _, _)
InputSelection(temp_prep_list, env, initial_check, last_input_length, tmp_size, fuel) ==
    LET input_arg == IF initial_check THEN 1 ELSE last_input_length
        tf == GetTotalAmountPlusFee(input_arg, temp_prep_list, env.pp)
        temp_o_tfee == tf.amount + tf.fee
        input_total == SumAmount(env.input_utxo_list) + env.reward_details.stake_amount
        change_amount == input_total - temp_o_tfee
        temp_o_required_amt ==
            IF change_amount > CardanoMinimumAmount
            THEN temp_o_tfee + CardanoMinimumAmount
            ELSE tf.amount + (tf.fee + change_amount)
        count == SelectInputs(env.input_utxo_list, temp_o_required_amt, 0, 0)
        sz == GetTransactionByteSize(count, temp_prep_list, env.reward_details.present)
    IN  IF fuel = 0 THEN NoSelection("no_return", 0, 0, tmp_size)
        ELSE IF tf.error # "none" THEN NoSelection(tf.error, 0, 0, tmp_size)
        ELSE IF input_total < temp_o_tfee
        THEN NoSelection("InsufficientBalance", temp_o_tfee, input_total, tmp_size)
        ELSE IF count = last_input_length
        THEN [error |-> "none", required_amount |-> 0, current_amount |-> 0,
              count |-> count, tmp_size |-> tmp_size,
              add_change_to_fee |-> (change_amount < CardanoMinimumAmount),
              tfee |-> temp_o_tfee]
        ELSE IF sz.error # "none" THEN NoSelection(sz.error, 0, 0, tmp_size)
        ELSE InputSelection(temp_prep_list, env, FALSE, count, sz.size, fuel - 1)

Outcome(error, required_amount, current_amount, st) ==
    [error |-> error, required_amount |-> required_amount,
     current_amount |-> current_amount, st |-> st]

\* Lines 818-841: the preparation outputs one round probes, with the
\* placeholder that funds the extra group of the payments left over.
RoundCandidate(st, env, num_groups) ==
    LET base == st.final_prep_list \o Slice(st.temp_utxo_list, 0, st.temp_utxo_index)
        extra_group == Slice(st.temp_utxo_list, st.temp_utxo_index,
                             Len(st.temp_utxo_list))
    IN  IF Len(extra_group) > 0
        THEN LET e_size == GetTransactionByteSize(1, base, FALSE)
                 e_tf == GetTotalAmountPlusFee(1, extra_group, env.pp)
             IN  [error |-> e_size.error, extra_group |-> extra_group,
                  e_amount |-> e_tf.amount, e_fee |-> e_tf.fee,
                  e_tx_size |-> e_size.size,
                  temp_prep_list |->
                      InsertAt(base, num_groups,
                               PaymentDetail(SourceAddress, e_tf.amount + e_tf.fee))]
        ELSE [error |-> "none", extra_group |-> extra_group, e_amount |-> 0,
              e_fee |-> 0, e_tx_size |-> 0, temp_prep_list |-> base]

\* Lines 912-923: what one round leaves behind.  st.accepted records, for
\* every accepted round, the outputs-plus-fee amount of the accepted
\* preparation transaction.
AfterRound(st, env, num_groups, cand, sel) ==
    LET seen == [st EXCEPT !.initial_round = FALSE, !.tmp_size = sel.tmp_size,
                           !.add_change_to_fee = sel.add_change_to_fee,
                           !.rounds = st.rounds + 1]
    IN  IF sel.tmp_size > env.pp.max_tx_size
        THEN [seen EXCEPT !.temp_utxo_index = st.temp_utxo_index \div 2]
        ELSE [seen EXCEPT
                 !.final_prep_list = cand.temp_prep_list,
                 !.final_input_list = Slice(env.input_utxo_list, 0, sel.count),
                 !.extra_group_details =
                     PaymentGroup(num_groups, cand.extra_group, cand.e_amount,
                                  cand.e_fee, cand.e_tx_size),
                 !.temp_utxo_list = cand.extra_group,
                 !.accepted = st.accepted \cup {sel.tfee}]

RoundFailure(st, cand, sel) ==
    IF cand.error # "none" THEN Outcome(cand.error, 0, 0, st)
    ELSE IF sel.error # "none"
    THEN Outcome(sel.error, sel.required_amount, sel.current_amount, st)
    ELSE IF sel.tmp_size = Unbound THEN Outcome("UnboundLocalError", 0, 0, st)
    ELSE Outcome("none", 0, 0, st)

\* Lines 816-923: the rounds that try to put spilled payments directly into the
\* preparation transaction.
RECURSIVE PrepRounds(_, _, _)
PrepRounds(st, env, num_groups) ==
    IF ~((st.temp_utxo_index > 0 /\ Len(st.temp_utxo_list) > 0) \/ st.initial_round)
    THEN Outcome("none", 0, 0, st)
    ELSE LET cand == RoundCandidate(st, env, num_groups)
             sel == InputSelection(cand.temp_prep_list, env, TRUE, 0, st.tmp_size,
                                   LoopFuel)
             failure == RoundFailure(st, cand, sel)
         IN  IF failure.error # "none" THEN failure
             ELSE PrepRounds(AfterRound(st, env, num_groups, cand, sel), env,
                             num_groups)

TransactionPlan(prep_input, prep_output, reward_details, group_details, add_change_to_fee) ==
    [prep_input |-> prep_input, prep_output |-> prep_output,
     reward_details |-> reward_details, group_details |-> group_details,
     add_change_to_fee |-> add_change_to_fee]

EmptyPlan == TransactionPlan(<< >>, << >>, NoRewards, << >>, FALSE)

AdjustResult(error, required_amount, current_amount, plan, st) ==
    [error |-> error, required_amount |-> required_amount,
     current_amount |-> current_amount, plan |-> plan,
     accepted |-> st.accepted, rounds |-> st.rounds]

\* Lines 698-781: seed the spill list, classify, trim and pack the groups.
RebalanceGroups(output_utxo_details, pp) ==
    LET single == Len(output_utxo_details) = 1
        cls == ClassifyGroups(
                   IF single
                   THEN << [output_utxo_details[1] EXCEPT !.payment_details = << >>] >>
                   ELSE output_utxo_details, pp)
        trimmed == TrimGroups(cls.over,
                              IF single THEN output_utxo_details[1].payment_details
                              ELSE << >>, pp)
    IN  IF trimmed.error # "none"
        THEN [error |-> trimmed.error, final_group_list |-> << >>,
              temp_utxo_list |-> << >>]
        ELSE LET packed == PackGroups(cls.under, SortDesc(trimmed.temp_utxo_list), pp)
             IN  [error |-> "none",
                  final_group_list |-> SortByIndex(trimmed.groups \o packed.groups),
                  temp_utxo_list |-> packed.temp_utxo_list]

\* Lines 801-815: the state the rounds start from.
FirstRound(final_group_list, temp_utxo_list) ==
    [temp_utxo_index |-> Len(temp_utxo_list),
     temp_utxo_list |-> temp_utxo_list,
     final_prep_list |->
         [i \in 1..Len(final_group_list) |->
             PaymentDetail(SourceAddress,
                           final_group_list[i].amount + final_group_list[i].fee)],
     final_input_list |-> << >>,
     extra_group_details |-> PaymentGroup(Len(final_group_list), << >>, 0, 0, 0),
     initial_round |-> TRUE, tmp_size |-> Unbound,
     add_change_to_fee |-> FALSE, accepted |-> {}, rounds |-> 0]

\* Lines 925-947: append the extra group and insert its placeholder.
FinalPlan(final_group_list, st, reward_details) ==
    LET extra == st.extra_group_details
    IN  IF Len(extra.payment_details) > 0
        THEN TransactionPlan(
                 st.final_input_list,
                 InsertAt(st.final_prep_list, extra.index,
                          PaymentDetail(SourceAddress, extra.amount + extra.fee)),
                 reward_details, Append(final_group_list, extra),
                 st.add_change_to_fee)
        ELSE TransactionPlan(st.final_input_list, st.final_prep_list,
                             reward_details, final_group_list,
                             st.add_change_to_fee)

AdjustAfterRounds(final_group_list, r, reward_details) ==
    IF r.error # "none"
    THEN AdjustResult(r.error, r.required_amount, r.current_amount, EmptyPlan, r.st)
    ELSE AdjustResult("none", 0, 0,
                      FinalPlan(final_group_list, r.st, reward_details), r.st)

AdjustAfterRebalance(rebalanced, input_utxo_list, reward_details, pp) ==
    IF rebalanced.error # "none"
    THEN AdjustResult(rebalanced.error, 0, 0, EmptyPlan,
                      [accepted |-> {}, rounds |-> 0])
    ELSE AdjustAfterRounds(
             rebalanced.final_group_list,
             PrepRounds(FirstRound(rebalanced.final_group_list,
                                   rebalanced.temp_utxo_list),
                        [input_utxo_list |-> input_utxo_list,
                         reward_details |-> reward_details, pp |-> pp],
                        Len(rebalanced.final_group_list)),
             reward_details)

\* adjust_utxos as a whole.  The result carries the plan or the error raised.
AdjustUtxos(output_utxo_details, input_utxo_list, reward_details, pp) ==
    AdjustAfterRebalance(RebalanceGroups(output_utxo_details, pp),
                         input_utxo_list, reward_details, pp)

(***************************************************************************)
(* generate_bash_script: the preparation transaction the script builds.    *)
(***************************************************************************)
\* A preparation transaction whose input total leaves the stake rewards out.
PrepTransactionWithoutRewards(transaction_plan, pp) ==
    LET prep_input_utxos == transaction_plan.prep_input
        prep_output_utxos == transaction_plan.prep_output
        prep_fee == pp.txFeeFixed
                    + pp.txFeePerByte
                      * DraftBytes(Len(prep_input_utxos), prep_output_utxos,
                                   transaction_plan.reward_details.present)
        difference == SumAmount(prep_input_utxos) - SumAmount(prep_output_utxos)
    IN  [inputs |-> prep_input_utxos,
         withdrawal |-> transaction_plan.reward_details.stake_amount,
         outputs |-> IF ~transaction_plan.add_change_to_fee
                     THEN Append(prep_output_utxos,
                                 PaymentDetail(SourceAddress, difference - prep_fee))
                     ELSE prep_output_utxos,
         fee |-> IF ~transaction_plan.add_change_to_fee THEN prep_fee
                 ELSE difference,
         change_emitted |-> ~transaction_plan.add_change_to_fee]

\* Lines 1194-1256.  $prep_fee is what calculate-min-fee answers for the
\* preparation draft when the script runs.
PrepTransaction(transaction_plan, pp) ==
    LET prep_input_utxos == transaction_plan.prep_input
        prep_output_utxos == transaction_plan.prep_output
        prep_fee == pp.txFeeFixed
                    + pp.txFeePerByte
                      * DraftBytes(Len(prep_input_utxos), prep_output_utxos,
                                   transaction_plan.reward_details.present)
        prep_total_input_amount ==
            SumAmount(prep_input_utxos)
            + transaction_plan.reward_details.stake_amount
        prep_total_output_amount == SumAmount(prep_output_utxos)
    IN  [inputs |-> prep_input_utxos,
         withdrawal |-> transaction_plan.reward_details.stake_amount,
         outputs |-> IF ~transaction_plan.add_change_to_fee
                     THEN Append(prep_output_utxos,
                                 PaymentDetail(SourceAddress,
                                     (prep_total_input_amount
                                      - prep_total_output_amount) - prep_fee))
                     ELSE prep_output_utxos,
         fee |-> IF ~transaction_plan.add_change_to_fee THEN prep_fee
                 ELSE prep_total_input_amount - prep_total_output_amount,
         change_emitted |-> ~transaction_plan.add_change_to_fee]

(***************************************************************************)
(* State.                                                                  *)
(***************************************************************************)
VARIABLES
    output_list,      \* the payments handed to group_output_utxo
    max_tx_size,      \* protocol parameter maxTxSize
    group_result,     \* what group_output_utxo returned ("idle" before the call)
    args,             \* command parameters and ledger state of one planning run
    pc,               \* position of generate_script_process
    init_details,     \* what preparation_step / dust_collect returned
    adjusted,         \* what adjust_utxos returned
    plan_file,        \* the transaction plan file on disk
    script_file,      \* the script file on disk
    console,          \* the errors printed by main
    invoked,          \* the operations generate_transaction_plan has called
    run,              \* position and shell variables of the running script
    ledger,           \* the chain: submitted and confirmed transactions, the tip
    hist,             \* history of one plan file: what the scripts did to it
    call_args,        \* the arguments of a function that is called on its own
    call_result       \* what that function returned ("idle" before the call)

vars == << output_list, max_tx_size, group_result, args, pc, init_details,
           adjusted, plan_file, script_file, console, invoked, run, ledger,
           hist, call_args, call_result >>

group_vars == << output_list, max_tx_size, group_result >>
plan_vars == << args, pc, init_details, adjusted, plan_file, script_file, console,
                invoked >>
run_vars == << run, ledger, hist >>
call_vars == << call_args, call_result >>

CallIdle ==
    /\ call_args = [function |-> "none"]
    /\ call_result = [status |-> "idle"]

RunIdle ==
    /\ run = [pc |-> "idle"]
    /\ ledger = [submitted |-> {}, confirmed |-> {}, expired_upto |-> 0]
    /\ hist = [transitions |-> {}, polling |-> {}, premature |-> {}]

Absent == [written |-> FALSE]

NotAdjusted ==
    [error |-> "idle", required_amount |-> 0, current_amount |-> 0,
     plan |-> EmptyPlan, accepted |-> {}, rounds |-> 0]

PipelineIdle ==
    /\ args = [payments |-> << >>]
    /\ pc = "idle"
    /\ init_details = FailedStep("idle")
    /\ adjusted = NotAdjusted
    /\ console = << >>
    /\ invoked = << >>

PlanIdle ==
    /\ PipelineIdle
    /\ plan_file = Absent
    /\ script_file = Absent

GroupIdle ==
    /\ output_list = << >>
    /\ max_tx_size = 0
    /\ group_result = [status |-> "idle", groups |-> << >>, count |-> 0]

(***************************************************************************)
(* Specification SpecGroup: group_output_utxo on its own.                  *)
(***************************************************************************)
GroupInit ==
    /\ output_list \in SeqsUpTo(PaymentKinds, MaxOutputs)
    /\ max_tx_size \in 3..9
    /\ group_result = [status |-> "idle", groups |-> << >>, count |-> 0]
    /\ PlanIdle
    /\ RunIdle
    /\ CallIdle

CallGroupOutputUtxo ==
    /\ group_result.status = "idle"
    /\ group_result' = GroupOutputUtxo(output_list, max_tx_size)
    /\ UNCHANGED << output_list, max_tx_size, plan_vars, run_vars, call_vars >>

GroupNext == CallGroupOutputUtxo

SpecGroup == GroupInit /\ [][GroupNext]_vars

(***************************************************************************)
(* Specification SpecPlan: one run of generate_script_process without a     *)
(* saved plan file.                                                        *)
(***************************************************************************)
\* Wallets as the ledger query lists them, smallest UTxO first.
Wallets ==
    { w \in SeqsUpTo({1, 4, 9, 1000012}, MaxWallet) :
        \A i \in 1..(Len(w) - 1) : w[i] <= w[i + 1] }

ProtocolParameters ==
    { [max_tx_size |-> m, txFeeFixed |-> f[1], txFeePerByte |-> f[2]] :
        m \in 3..7, f \in { << 1, 0 >>, << 0, 1 >> } }

StakeRewards == { NoRewards, [present |-> TRUE, stake_amount |-> 3] }

PlanInit ==
    /\ GroupIdle
    /\ RunIdle
    /\ CallIdle
    /\ args \in
        { [payments |-> p,
           wallet |-> [i \in 1..Len(w) |-> InputUTXO(SourceAddress, w[i], FALSE)],
           stake_reward_details |-> r, pp |-> q,
           enable_dust_collection |-> d,
           dust_collection_threshold |-> 5] :
            p \in SeqsUpTo(PaymentKinds, MaxPayments), w \in Wallets,
            r \in StakeRewards, q \in ProtocolParameters, d \in BOOLEAN }
    /\ pc = "start"
    /\ init_details = FailedStep("idle")
    /\ adjusted = NotAdjusted
    /\ plan_file = Absent
    /\ script_file = Absent
    /\ console = << >>
    /\ invoked = << >>

\* main's except clauses: the error is printed once and the process ends.  A
\* call that never returns prints nothing.
Surface(error) ==
    IF error = "no_return"
    THEN pc' = "hung" /\ console' = console
    ELSE pc' = "failed" /\ console' = Append(console, error)

RunPreparationStep ==
    /\ pc = "start"
    /\ LET r == PreparationStep(args.payments, args.wallet,
                                args.stake_reward_details, args.pp)
       IN  /\ init_details' = r
           /\ IF r.error # "none" THEN Surface(r.error)
              ELSE pc' = "prepared" /\ console' = console
    /\ invoked' = Append(invoked, "preparation_step")
    /\ UNCHANGED << group_vars, call_vars, run_vars, args, adjusted, plan_file, script_file >>

\* generate_transaction_plan if it collected dust whenever the draft is too
\* large, whether dust collection is enabled or not.
RunDustCollectUnconditionally ==
    /\ pc = "prepared"
    /\ init_details.require_dust_collection
    /\ LET r == DustCollect(init_details, args.dust_collection_threshold, args.pp)
       IN  /\ init_details' = r
           /\ IF r.error # "none" THEN Surface(r.error)
              ELSE pc' = "prepared" /\ console' = console
    /\ invoked' = Append(invoked, "dust_collect")
    /\ UNCHANGED << group_vars, call_vars, run_vars, args, adjusted, plan_file, script_file >>

\* Lines 398-417 of generate_transaction_plan.
RunDustCollect ==
    /\ pc = "prepared"
    /\ init_details.require_dust_collection
    /\ IF args.enable_dust_collection
       THEN LET r == DustCollect(init_details, args.dust_collection_threshold, args.pp)
            IN  /\ init_details' = r
                /\ IF r.error # "none" THEN Surface(r.error)
                   ELSE pc' = "prepared" /\ console' = console
                /\ invoked' = Append(invoked, "dust_collect")
       ELSE /\ init_details' = init_details
            /\ Surface("ScriptError")
            /\ invoked' = invoked
    /\ UNCHANGED << group_vars, call_vars, run_vars, args, adjusted, plan_file, script_file >>

RunAdjustUtxos ==
    /\ pc = "prepared"
    /\ ~init_details.require_dust_collection
    /\ LET r == AdjustUtxos(init_details.output_details, init_details.wallet_utxos,
                            init_details.stake_reward_details, args.pp)
       IN  /\ adjusted' = r
           /\ IF r.error # "none" THEN Surface(r.error)
              ELSE pc' = "planned" /\ console' = console
    /\ invoked' = Append(invoked, "adjust_utxos")
    /\ UNCHANGED << group_vars, call_vars, run_vars, args, init_details, plan_file, script_file >>

\* The name of the generated script, <uuid>.sh, as the sequence of its parts.
ScriptFilename(uuid) == << uuid, ".sh" >>

\* TransactionPlan.__init__, line 182: <uuid>_transaction_plan.json.
TransactionPlanFilename(uuid) == << uuid, "_transaction_plan.json" >>

\* Lines 488-493 of generate_script_process: the plan, which got its uuid and
\* its filename when it was constructed, is written under that filename.
WritePlanFile ==
    /\ pc = "planned"
    /\ \E uuid \in { "5f1c", "a0b7" } :
           plan_file' = [written |-> TRUE, uuid |-> uuid,
                         filename |-> TransactionPlanFilename(uuid),
                         plan |-> adjusted.plan,
                         dust_group_details |-> init_details.dust_group_details]
    /\ pc' = "plan_written"
    /\ UNCHANGED << group_vars, call_vars, run_vars, args, init_details, adjusted, script_file,
                   console, invoked >>

\* Lines 504-514 of generate_script_process and the end of generate_bash_script.
WriteScriptFile ==
    /\ pc = "plan_written"
    /\ script_file' = [written |-> TRUE,
                       prep_tx |-> PrepTransaction(plan_file.plan, args.pp)]
    /\ pc' = "done"
    /\ UNCHANGED << group_vars, call_vars, run_vars, args, init_details, adjusted, plan_file,
                   console, invoked >>

PlanNext ==
    \/ RunPreparationStep
    \/ RunDustCollect
    \/ RunAdjustUtxos
    \/ WritePlanFile
    \/ WriteScriptFile

SpecPlan == PlanInit /\ [][PlanNext]_vars

(***************************************************************************)
(* The planning run of the single-group scenario (specification            *)
(* SpecScenario): one source UTxO of 1,000,000,000 units, payments of      *)
(* 1,000 units each, a flat fee of 100 units and a maximum transaction     *)
(* size under which all payments fit in one group.                         *)
(***************************************************************************)
ScenarioPayments == 30

ScenarioInit ==
    /\ GroupIdle
    /\ RunIdle
    /\ CallIdle
    /\ args \in
        { [payments |-> [i \in 1..n |-> PaymentDetail(a, 1000)],
           wallet |-> << InputUTXO(SourceAddress, 1000000000, FALSE) >>,
           stake_reward_details |-> NoRewards,
           pp |-> [max_tx_size |-> m, txFeeFixed |-> 100, txFeePerByte |-> 0],
           enable_dust_collection |-> FALSE,
           dust_collection_threshold |-> 5] :
            n \in 1..ScenarioPayments, a \in { ShortAddress, LongAddress },
            m \in { 2 * ScenarioPayments + 2, 16384 } }
    /\ pc = "start"
    /\ init_details = FailedStep("idle")
    /\ adjusted = NotAdjusted
    /\ plan_file = Absent
    /\ script_file = Absent
    /\ console = << >>
    /\ invoked = << >>

ScenarioNext ==
    \/ RunPreparationStep
    \/ RunAdjustUtxos
    \/ WritePlanFile
    \/ WriteScriptFile

SpecScenario == ScenarioInit /\ [][ScenarioNext]_vars

(***************************************************************************)
(* The saved plan file and the script generate_bash_script makes from it   *)
(***************************************************************************)
NotYetSubmitted == "NOT_YET_SUBMITTED"
SubmissionOngoing == "SUBMISSION_ONGOING"
TtlExpired == "TTL_EXPIRED"
SubmissionDone == "SUBMISSION_DONE"

\* A sub-transaction of the plan: dust batch i of the source address, the
\* preparation transaction, payment group g.
Dust(i) == << "dust", i >>
Prep == << "prep", 0 >>
Group(g) == << "group", g >>

\* The id of a transaction: the sub-transaction it carries out, the script
\* generation that built it (which fixes its ttl) and the generation of the
\* predecessor transaction whose output it spends (0: wallet UTxOs only).
TxId(of, generation, spends) ==
    [of |-> of, generation |-> generation, spends |-> spends]

NoHash == TxId(<< "none", 0 >>, 0, 0)       \* tx_hash_id = ""
UnsetVariable == TxId(<< "unset", 0 >>, 0, 0)  \* a shell variable never assigned

SubTx(submission_status, tx_hash_id) ==
    [submission_status |-> submission_status, tx_hash_id |-> tx_hash_id]

\* The plan file as generate_script_process first writes it.
FreshPlanFile(num_dust, num_groups, add_change_to_fee) ==
    [written |-> TRUE,
     add_change_to_fee |-> add_change_to_fee,
     dust_group_details |-> [i \in 1..num_dust |-> SubTx(NotYetSubmitted, NoHash)],
     prep_detail |-> SubTx(NotYetSubmitted, NoHash),
     group_details |-> [g \in 1..num_groups |-> SubTx(NotYetSubmitted, NoHash)]]

StatusOf(file, subtx) ==
    IF subtx[1] = "dust" THEN file.dust_group_details[subtx[2]].submission_status
    ELSE IF subtx[1] = "prep" THEN file.prep_detail.submission_status
    ELSE file.group_details[subtx[2]].submission_status

HashOf(file, subtx) ==
    IF subtx[1] = "dust" THEN file.dust_group_details[subtx[2]].tx_hash_id
    ELSE IF subtx[1] = "prep" THEN file.prep_detail.tx_hash_id
    ELSE file.group_details[subtx[2]].tx_hash_id

Pending(submission_status) == submission_status \in {NotYetSubmitted, TtlExpired}

Resumable(submission_status) ==
    submission_status \in {NotYetSubmitted, TtlExpired, SubmissionOngoing}

\* The dust part of the script: the create and sign commands of EVERY batch
\* are emitted whenever the preparation transaction is still to be built;
\* the txid variable is computed from the signed file for a pending batch and
\* is the recorded hash otherwise; dust_submit_function is called for each
\* batch that is not done.
DustCommands(transaction_plan, generation, i) ==
    LET detail == transaction_plan.dust_group_details[i]
        emitted == Pending(transaction_plan.prep_detail.submission_status)
        previous == IF i = 1 THEN 0
                    ELSE IF Pending(transaction_plan.dust_group_details[i - 1].submission_status)
                         THEN generation
                         ELSE transaction_plan.dust_group_details[i - 1].tx_hash_id.generation
    IN  [from_status |-> detail.submission_status,
         from_hash |-> detail.tx_hash_id,
         create |-> emitted,
         sign |-> emitted,
         txid |-> IF ~emitted THEN UnsetVariable
                  ELSE IF Pending(detail.submission_status)
                       THEN TxId(Dust(i), generation, previous)
                       ELSE detail.tx_hash_id,
         call |-> Resumable(detail.submission_status),
         straight_to_poll |-> detail.submission_status = SubmissionOngoing]

DustNotYetSubmitted(transaction_plan) ==
    Cardinality({i \in 1..Len(transaction_plan.dust_group_details) :
                    Pending(transaction_plan.dust_group_details[i].submission_status)})

\* The preparation part: draft, fee, raw and sign only for a pending
\* preparation transaction; an ongoing one gets an echo in place of the
\* submit command and the recorded hash as prep_txid.
PrepCommands(transaction_plan, generation) ==
    LET detail == transaction_plan.prep_detail
        num_dust == Len(transaction_plan.dust_group_details)
        last_dust == IF num_dust = 0 THEN 0
                     ELSE DustCommands(transaction_plan, generation, num_dust).txid.generation
    IN  [from_status |-> detail.submission_status,
         from_hash |-> detail.tx_hash_id,
         build |-> Pending(detail.submission_status),
         sign |-> Pending(detail.submission_status),
         submit |-> IF Pending(detail.submission_status) THEN "submit"
                    ELSE IF detail.submission_status = SubmissionOngoing THEN "echo"
                    ELSE "none",
         post |-> Resumable(detail.submission_status),
         txid |-> IF Pending(detail.submission_status)
                  THEN TxId(Prep, generation, last_dust)
                  ELSE detail.tx_hash_id]

\* The group part: raw, sign and submit for a pending group, a place in the
\* polled arrays for a pending or ongoing one.  The calls of
\* set_group_tx_to_ongoing are collected in group_tx_ongoing_commands, which
\* is only measured and never appended to the script.
GroupCommands(transaction_plan, generation, g) ==
    LET detail == transaction_plan.group_details[g]
    IN  [from_status |-> detail.submission_status,
         from_hash |-> detail.tx_hash_id,
         build |-> Pending(detail.submission_status),
         sign |-> Pending(detail.submission_status),
         submit |-> Pending(detail.submission_status),
         ongoing_call |-> FALSE,
         polled |-> Resumable(detail.submission_status),
         txid |-> IF Pending(detail.submission_status)
                  THEN TxId(Group(g), generation,
                            PrepCommands(transaction_plan, generation).txid.generation)
                  ELSE UnsetVariable]

GenerateBashScript(transaction_plan, generation) ==
    [written |-> TRUE,
     generation |-> generation,
     dust |-> [i \in 1..Len(transaction_plan.dust_group_details) |->
                  DustCommands(transaction_plan, generation, i)],
     dust_function_defined |-> DustNotYetSubmitted(transaction_plan) > 0,
     prep |-> PrepCommands(transaction_plan, generation),
     groups |-> [g \in 1..Len(transaction_plan.group_details) |->
                    GroupCommands(transaction_plan, generation, g)]]

(***************************************************************************)
(* The chain as the script sees it through cardano-cli                     *)
(***************************************************************************)
NoPredecessor == << "none", 0 >>

\* The sub-transaction whose output a sub-transaction spends.
Predecessor(file, of) ==
    IF of[1] = "dust"
    THEN IF of[2] = 1 THEN NoPredecessor ELSE Dust(of[2] - 1)
    ELSE IF of[1] = "prep"
         THEN IF Len(file.dust_group_details) = 0 THEN NoPredecessor
              ELSE Dust(Len(file.dust_group_details))
         ELSE Prep

SubTxConfirmed(l, of) == \E c \in l.confirmed : c.of = of

TtlPassed(l, generation) == generation <= l.expired_upto

InputsAmong(txs, file, tx) ==
    \/ Predecessor(file, tx.of) = NoPredecessor
    \/ \E c \in txs : c.of = Predecessor(file, tx.of) /\ c.generation = tx.spends

\* transaction submit prints a result only when the node takes the
\* transaction: its ttl has not passed, its inputs are known to the node and
\* none is spent by a confirmed transaction.
NodeCanAccept(l, file, tx) ==
    /\ tx.generation > 0
    /\ ~TtlPassed(l, tx.generation)
    /\ ~SubTxConfirmed(l, tx.of)
    /\ InputsAmong(l.submitted, file, tx)

\* query utxo --address <source>: the id of a dust transaction shows while
\* its output is unspent.
DustVisible(l, file, i, txid) ==
    /\ txid \in l.confirmed
    /\ ~SubTxConfirmed(l, IF i = Len(file.dust_group_details) THEN Prep ELSE Dust(i + 1))

\* query utxo --address <source>: the id of the preparation transaction shows
\* while one of its outputs at the source address (a group's aggregate, the
\* change) is unspent.
PrepVisible(l, file, txid) ==
    /\ txid \in l.confirmed
    /\ \/ ~file.add_change_to_fee
       \/ \E g \in 1..Len(file.group_details) : ~SubTxConfirmed(l, Group(g))

\* query utxo --tx-in <prep_txid>#<group index>
GroupUtxoVisible(l, g, prep_txid) ==
    /\ prep_txid \in l.confirmed
    /\ ~SubTxConfirmed(l, Group(g))

(***************************************************************************)
(* Running the script                                                      *)
(***************************************************************************)
At(position, index) ==
    [pc |-> position, index |-> index, status |-> "", seen |-> FALSE,
     utxo_status_array |-> << >>]

Least(S) == CHOOSE m \in S : \A x \in S : m <= x

\* Where the script goes on: the next group submit command, else the polling
\* of the groups, else the end of the script.
GroupSection(script, from) ==
    LET submits == {g \in from..Len(script.groups) : script.groups[g].submit}
    IN  IF submits # {} THEN At("group_submit", Least(submits))
        ELSE IF \E g \in 1..Len(script.groups) : script.groups[g].polled
             THEN At("group_status", 0)
             ELSE At("finished", 0)

PrepSection(script) ==
    IF script.prep.post THEN At("prep_submit", 0) ELSE GroupSection(script, 1)

DustSection(script, from) ==
    LET calls == {i \in from..Len(script.dust) : script.dust[i].call}
    IN  IF calls # {} THEN At("dust_call", Least(calls)) ELSE PrepSection(script)

UpdateTransactionPlanFile(file, subtx, submission_status, tx_hash_id) ==
    IF subtx[1] = "dust"
    THEN [file EXCEPT !.dust_group_details[subtx[2]] = SubTx(submission_status, tx_hash_id)]
    ELSE IF subtx[1] = "prep"
         THEN [file EXCEPT !.prep_detail = SubTx(submission_status, tx_hash_id)]
         ELSE [file EXCEPT !.group_details[subtx[2]] = SubTx(submission_status, tx_hash_id)]

\* History: the status changes written to the plan file.
Written(h, file, subtx, submission_status) ==
    IF StatusOf(file, subtx) = submission_status THEN h
    ELSE [h EXCEPT !.transitions =
             @ \cup {<< subtx[1], StatusOf(file, subtx), submission_status >>}]

\* History: a submit command run while the transaction it spends from was
\* not recorded as done.
Submitted(h, file, subtx) ==
    IF \/ Predecessor(file, subtx) = NoPredecessor
       \/ StatusOf(file, Predecessor(file, subtx)) = SubmissionDone
    THEN h
    ELSE [h EXCEPT !.premature = @ \cup {subtx}]

pipeline_vars == << args, pc, init_details, adjusted, console, invoked >>

\* $(transaction submit ...): the node takes the transaction, or the command
\* fails and prints nothing, which ends the script with exit 1.
SubmitCommand(subtx, tx, submitted_position) ==
    /\ hist' = Submitted(hist, plan_file, subtx)
    /\ \/ /\ NodeCanAccept(ledger, plan_file, tx)
          /\ ledger' = [ledger EXCEPT !.submitted = @ \cup {tx}]
          /\ run' = At(submitted_position, subtx[2])
       \/ /\ ledger' = ledger
          /\ run' = At("exited", 0)
    /\ UNCHANGED << group_vars, call_vars, pipeline_vars, plan_file, script_file >>

\* The ongoing status command and the first query before the until loop.
MarkOngoing(subtx, tx, visible, poll_position) ==
    /\ plan_file' = UpdateTransactionPlanFile(plan_file, subtx, SubmissionOngoing, tx)
    /\ hist' = [Written(hist, plan_file, subtx, SubmissionOngoing)
                   EXCEPT !.polling = @ \cup {subtx}]
    /\ run' = [At(poll_position, subtx[2]) EXCEPT !.status = "ongoing", !.seen = visible]
    /\ UNCHANGED << group_vars, call_vars, pipeline_vars, script_file, ledger >>

\* A pass of the until loop that queries and never compares the tip with the
\* ttl.
PollIterationWithoutTtl(subtx, visible) ==
    /\ ~run.seen
    /\ run.status = "ongoing"
    /\ run' = [run EXCEPT !.seen = visible]
    /\ UNCHANGED << plan_file, hist >>
    /\ UNCHANGED << group_vars, call_vars, pipeline_vars, script_file, ledger >>

\* One pass of the until loop: query, read the tip, mark expired.
PollIteration(subtx, visible) ==
    /\ ~run.seen
    /\ run.status = "ongoing"
    /\ IF TtlPassed(ledger, script_file.generation)
       THEN /\ run' = [run EXCEPT !.seen = visible, !.status = "expired"]
            /\ plan_file' = UpdateTransactionPlanFile(plan_file, subtx, TtlExpired,
                                                      HashOf(plan_file, subtx))
            /\ hist' = Written(hist, plan_file, subtx, TtlExpired)
       ELSE /\ run' = [run EXCEPT !.seen = visible]
            /\ UNCHANGED << plan_file, hist >>
    /\ UNCHANGED << group_vars, call_vars, pipeline_vars, script_file, ledger >>

\* After the loop: success is written when the status is still ongoing, and
\* any other status ends the script with exit 1.
FinishPolling(subtx, tx, next_run) ==
    /\ run.seen \/ run.status # "ongoing"
    /\ IF run.status = "ongoing"
       THEN /\ plan_file' = UpdateTransactionPlanFile(plan_file, subtx, SubmissionDone, tx)
            /\ hist' = Written(hist, plan_file, subtx, SubmissionDone)
            /\ run' = next_run
       ELSE /\ run' = At("exited", 0)
            /\ UNCHANGED << plan_file, hist >>
    /\ UNCHANGED << group_vars, call_vars, pipeline_vars, script_file, ledger >>

(***************************************************************************)
(* Specification SpecRun: the script of a saved plan file is run, killed,  *)
(* and generated again from the plan file as the runs left it.             *)
(***************************************************************************)
RunInit ==
    /\ GroupIdle
    /\ PipelineIdle
    /\ CallIdle
    /\ \E num_dust \in 0..MaxDustBatches, num_groups \in 1..MaxGroups,
          add_change_to_fee \in BOOLEAN :
          plan_file = FreshPlanFile(num_dust, num_groups, add_change_to_fee)
    /\ script_file = GenerateBashScript(plan_file, 1)
    /\ run = At("build", 0)
    /\ ledger = [submitted |-> {}, confirmed |-> {}, expired_upto |-> 0]
    /\ hist = [transitions |-> {}, polling |-> {}, premature |-> {}]

\* The build, sign and txid commands at the head of the script: they write
\* local files and shell variables only.
BuildAndSign ==
    /\ run.pc = "build"
    /\ run' = DustSection(script_file, 1)
    /\ UNCHANGED << group_vars, call_vars, pipeline_vars, plan_file, script_file, ledger, hist >>

\* A call of dust_submit_function in a script that does not define it: bash
\* reports the unknown command and goes on with the next line.
DustCallUndefined ==
    /\ run.pc = "dust_call"
    /\ ~script_file.dust_function_defined
    /\ run' = DustSection(script_file, run.index + 1)
    /\ UNCHANGED << group_vars, call_vars, pipeline_vars, plan_file, script_file, ledger, hist >>

DustSubmit ==
    /\ run.pc = "dust_call"
    /\ script_file.dust_function_defined
    /\ ~script_file.dust[run.index].straight_to_poll
    /\ SubmitCommand(Dust(run.index), script_file.dust[run.index].txid, "dust_submitted")

DustStraightToPolling ==
    /\ run.pc = "dust_call"
    /\ script_file.dust_function_defined
    /\ script_file.dust[run.index].straight_to_poll
    /\ run' = At("dust_submitted", run.index)
    /\ UNCHANGED << group_vars, call_vars, pipeline_vars, plan_file, script_file, ledger, hist >>

DustMarkOngoing ==
    /\ run.pc = "dust_submitted"
    /\ MarkOngoing(Dust(run.index), script_file.dust[run.index].txid,
                   DustVisible(ledger, plan_file, run.index,
                               script_file.dust[run.index].txid),
                   "dust_poll")

DustPollIteration ==
    /\ run.pc = "dust_poll"
    /\ PollIteration(Dust(run.index),
                     DustVisible(ledger, plan_file, run.index,
                                 script_file.dust[run.index].txid))

DustFinish ==
    /\ run.pc = "dust_poll"
    /\ FinishPolling(Dust(run.index), script_file.dust[run.index].txid,
                     DustSection(script_file, run.index + 1))

\* prep_submit_result: the submit command, or the echo that stands in for it
\* when the plan file records the preparation transaction as ongoing.
PrepSubmit ==
    /\ run.pc = "prep_submit"
    /\ script_file.prep.submit = "submit"
    /\ SubmitCommand(Prep, script_file.prep.txid, "prep_submitted")

PrepEcho ==
    /\ run.pc = "prep_submit"
    /\ script_file.prep.submit = "echo"
    /\ run' = At("prep_submitted", 0)
    /\ UNCHANGED << group_vars, call_vars, pipeline_vars, plan_file, script_file, ledger, hist >>

PrepMarkOngoing ==
    /\ run.pc = "prep_submitted"
    /\ MarkOngoing(Prep, script_file.prep.txid,
                   PrepVisible(ledger, plan_file, script_file.prep.txid), "prep_poll")

PrepPollIteration ==
    /\ run.pc = "prep_poll"
    /\ PollIteration(Prep, PrepVisible(ledger, plan_file, script_file.prep.txid))

PrepFinish ==
    /\ run.pc = "prep_poll"
    /\ FinishPolling(Prep, script_file.prep.txid, GroupSection(script_file, 1))

\* group_<index>_submit_result=$(transaction submit ...): the result is
\* assigned and never read.
GroupSubmit ==
    /\ run.pc = "group_submit"
    /\ hist' = Submitted(hist, plan_file, Group(run.index))
    /\ \/ /\ NodeCanAccept(ledger, plan_file, script_file.groups[run.index].txid)
          /\ ledger' = [ledger EXCEPT !.submitted =
                           @ \cup {script_file.groups[run.index].txid}]
       \/ ledger' = ledger
    /\ run' = GroupSection(script_file, run.index + 1)
    /\ UNCHANGED << group_vars, call_vars, pipeline_vars, plan_file, script_file >>

\* The head of the status script: every polled group starts as ongoing in
\* utxo_status_array; nothing is written to the plan file.
GroupStatusArrays ==
    /\ run.pc = "group_status"
    /\ run' = [At("group_poll", 0) EXCEPT !.utxo_status_array =
                  [g \in 1..Len(script_file.groups) |->
                      IF script_file.groups[g].polled THEN "ongoing" ELSE "absent"]]
    /\ hist' = [hist EXCEPT !.polling =
                   @ \cup {Group(g) : g \in {k \in 1..Len(script_file.groups) :
                                                script_file.groups[k].polled}}]
    /\ UNCHANGED << group_vars, call_vars, pipeline_vars, plan_file, script_file, ledger >>

\* The body of the for loop for one ongoing group.
GroupPoll(g) ==
    /\ run.pc = "group_poll"
    /\ run.utxo_status_array[g] = "ongoing"
    /\ IF ~GroupUtxoVisible(ledger, g, script_file.prep.txid)
       THEN /\ run' = [run EXCEPT !.utxo_status_array[g] = "success"]
            /\ plan_file' = UpdateTransactionPlanFile(plan_file, Group(g), SubmissionDone,
                                                      script_file.groups[g].txid)
            /\ hist' = Written(hist, plan_file, Group(g), SubmissionDone)
       ELSE IF TtlPassed(ledger, script_file.generation)
            THEN /\ run' = [run EXCEPT !.utxo_status_array[g] = "expired"]
                 /\ plan_file' = UpdateTransactionPlanFile(plan_file, Group(g), TtlExpired,
                                                           HashOf(plan_file, Group(g)))
                 /\ hist' = Written(hist, plan_file, Group(g), TtlExpired)
            ELSE UNCHANGED << run, plan_file, hist >>
    /\ UNCHANGED << group_vars, call_vars, pipeline_vars, script_file, ledger >>

GroupsFinish ==
    /\ run.pc = "group_poll"
    /\ \A g \in 1..Len(run.utxo_status_array) : run.utxo_status_array[g] # "ongoing"
    /\ run' = At("finished", 0)
    /\ UNCHANGED << group_vars, call_vars, pipeline_vars, plan_file, script_file, ledger, hist >>

\* The chain takes a submitted transaction into a block.
ChainConfirms ==
    /\ run.pc # "idle"
    /\ \E tx \in ledger.submitted \ ledger.confirmed :
          /\ ~TtlPassed(ledger, tx.generation)
          /\ ~SubTxConfirmed(ledger, tx.of)
          /\ InputsAmong(ledger.confirmed, plan_file, tx)
          /\ ledger' = [ledger EXCEPT !.confirmed = @ \cup {tx}]
    /\ UNCHANGED << group_vars, call_vars, pipeline_vars, plan_file, script_file, run, hist >>

\* The tip passes the ttl of the oldest script whose ttl is still ahead.
TipPassesTtl ==
    /\ run.pc # "idle"
    /\ ledger.expired_upto < script_file.generation
    /\ ledger' = [ledger EXCEPT !.expired_upto = @ + 1]
    /\ UNCHANGED << group_vars, call_vars, pipeline_vars, plan_file, script_file, run, hist >>

Running == run.pc \notin {"idle", "finished", "exited", "killed"}

Kill ==
    /\ Running
    /\ run' = At("killed", 0)
    /\ UNCHANGED << group_vars, call_vars, pipeline_vars, plan_file, script_file, ledger, hist >>

\* generate_script_process with the saved plan file: the script is generated
\* again from the statuses the runs left in the file.
Regenerate ==
    /\ run.pc \in {"finished", "exited", "killed"}
    /\ script_file.generation < MaxGenerations
    /\ script_file' = GenerateBashScript(plan_file, script_file.generation + 1)
    /\ run' = At("build", 0)
    /\ UNCHANGED << group_vars, call_vars, pipeline_vars, plan_file, ledger, hist >>

RunNext ==
    \/ BuildAndSign
    \/ DustCallUndefined
    \/ DustSubmit
    \/ DustStraightToPolling
    \/ DustMarkOngoing
    \/ DustPollIteration
    \/ DustFinish
    \/ PrepSubmit
    \/ PrepEcho
    \/ PrepMarkOngoing
    \/ PrepPollIteration
    \/ PrepFinish
    \/ GroupSubmit
    \/ GroupStatusArrays
    \/ \E g \in 1..Len(plan_file.group_details) : GroupPoll(g)
    \/ GroupsFinish
    \/ ChainConfirms
    \/ TipPassesTtl
    \/ Kill
    \/ Regenerate

SpecRun == RunInit /\ [][RunNext]_vars

\* The commands of the script: bash runs the next one unless it is killed.
ScriptStep ==
    \/ BuildAndSign
    \/ DustCallUndefined
    \/ DustSubmit
    \/ DustStraightToPolling
    \/ DustMarkOngoing
    \/ DustPollIteration
    \/ DustFinish
    \/ PrepSubmit
    \/ PrepEcho
    \/ PrepMarkOngoing
    \/ PrepPollIteration
    \/ PrepFinish
    \/ GroupSubmit
    \/ GroupStatusArrays
    \/ \E g \in 1..Len(plan_file.group_details) : GroupPoll(g)
    \/ GroupsFinish

\* Specification SpecRunFair: the runs of SpecRun in which a script that is
\* not killed goes on running and the tip of the chain goes on advancing, so
\* that it passes the ttl of the running script.
SpecRunFair ==
    /\ RunInit
    /\ [][RunNext]_vars
    /\ WF_vars(ScriptStep)
    /\ WF_vars(TipPassesTtl)

(***************************************************************************)
(* dust_collect called on its own (specification SpecDust): a wallet of    *)
(* two source addresses, both collection methods.                          *)
(***************************************************************************)
OtherSourceAddress == "src2"

\* Wallets of up to MaxWallet UTxOs of 6, 8 or 12 units owned by either source
\* address; thresholds 5 (nothing is dust) and 10 (6 and 8 are dust).
DustInit ==
    /\ GroupIdle
    /\ PlanIdle
    /\ RunIdle
    /\ call_result = [status |-> "idle"]
    /\ call_args \in
        { [function |-> "dust_collect", input_utxos |-> w,
           dust_collection_method |-> m, dust_collection_threshold |-> t,
           pp |-> p] :
            w \in SeqsUpTo({ InputUTXO(a, n, FALSE) :
                                a \in {SourceAddress, OtherSourceAddress},
                                n \in {6, 8, 12} },
                           MaxWallet),
            m \in {CollectToSource, CollectPerAddress},
            t \in {5, 10}, p \in ProtocolParameters }

CallDustCollect ==
    /\ call_args.function = "dust_collect"
    /\ call_result.status = "idle"
    /\ call_result' =
           DustCollectBy(call_args.input_utxos, SourceAddress,
                         call_args.dust_collection_method,
                         call_args.dust_collection_threshold, call_args.pp)
    /\ UNCHANGED << group_vars, plan_vars, run_vars, call_args >>

DustNext == CallDustCollect

SpecDust == DustInit /\ [][DustNext]_vars

(***************************************************************************)
(* get_transaction_byte_size with its temporary files (specification       *)
(* SpecByteSize).  Every external command of the call may fail.             *)
(***************************************************************************)
MethodPyCardano == "PYCARDANO"

\* The steps of the CLI branch, lines 805-920, in order.
ByteSizeSteps ==
    << "create_draft", "get_fee", "get_slot", "create_raw", "sign", "get_size",
       "delete_draft", "delete_raw", "delete_signed" >>

NoFault == "none"

\* The temporary files in the temp directory after a step that succeeded.
StepEffect(step, files) ==
    CASE step = "create_draft" -> files \cup { "draft" }
      [] step = "create_raw" -> files \cup { "raw" }
      [] step = "sign" -> files \cup { "signed" }
      [] step = "delete_draft" -> files \ { "draft" }
      [] step = "delete_raw" -> files \ { "raw" }
      [] step = "delete_signed" -> files \ { "signed" }
      [] OTHER -> files

\* Lines 805-922: every step raises out of the function as soon as it fails;
\* the deletions are the last three steps.
RECURSIVE RunSteps(_, _, _)
RunSteps(steps, fault, files) ==
    IF steps = << >>
    THEN [status |-> "returned", error |-> "none", files |-> files]
    ELSE IF Head(steps) = fault
    THEN [status |-> "raised",
          error |-> IF fault \in { "create_draft", "get_fee", "get_slot", "create_raw" }
                    THEN "ScriptError" ELSE "InvalidFileError",
          files |-> files]
    ELSE RunSteps(Tail(steps), fault, StepEffect(Head(steps), files))

\* get_transaction_byte_size as a call: the result and the temporary files
\* that exist when the call ends.
GetTransactionByteSizeCall(num_input, output_arg, method, fault) ==
    LET checked == GetTransactionByteSize(num_input, output_arg, FALSE)
        ran == RunSteps(ByteSizeSteps, fault, {})
    IN  IF checked.error # "none"
        THEN [status |-> "raised", error |-> checked.error, size |-> 0,
              files |-> {}]
        ELSE IF method = MethodPyCardano
        THEN [status |-> IF fault = NoFault THEN "returned" ELSE "raised",
              error |-> IF fault = NoFault THEN "none" ELSE "ScriptError",
              size |-> IF fault = NoFault THEN checked.size ELSE 0,
              files |-> {}]
        ELSE [status |-> ran.status, error |-> ran.error,
              size |-> IF ran.status = "returned" THEN checked.size ELSE 0,
              files |-> ran.files]

ByteSizeInit ==
    /\ GroupIdle
    /\ PlanIdle
    /\ RunIdle
    /\ call_result = [status |-> "idle"]
    /\ call_args \in
        { [function |-> "get_transaction_byte_size", input_arg |-> n,
           output_arg |-> o, method |-> m] :
            n \in 0..MaxWallet, o \in SeqsUpTo(PaymentKinds, 2),
            m \in { "HOST_CLI", MethodPyCardano } }

CallGetTransactionByteSize ==
    /\ call_args.function = "get_transaction_byte_size"
    /\ call_result.status = "idle"
    /\ \E fault \in { NoFault } \cup { ByteSizeSteps[i] : i \in 1..Len(ByteSizeSteps) } :
           call_result' =
               GetTransactionByteSizeCall(call_args.input_arg, call_args.output_arg,
                                          call_args.method, fault)
    /\ UNCHANGED << group_vars, plan_vars, run_vars, call_args >>

ByteSizeNext == CallGetTransactionByteSize

SpecByteSize == ByteSizeInit /\ [][ByteSizeNext]_vars

(***************************************************************************)
(* The TransactionPlan classes, TransactionPlan.json and                   *)
(* TransactionPlan.from_transaction_plan_file (specification SpecPlanFile).*)
(* An object is the record of its attributes; an enum member is the record *)
(* of its enum and its name; a JSON object is the record of its keys, with *)
(* strings where the object holds enum members.                            *)
(***************************************************************************)
Member(enum, name) == [enum |-> enum, name |-> name]

\* constants/common.py: << enum, member name, member value >>.
EnumTable ==
    { << "CardanoNetwork", "MAINNET", "MAINNET" >>,
      << "CardanoNetwork", "TESTNET", "TESTNET" >>,
      << "ScriptMethod", "METHOD_HOST_CLI", "HOST_CLI" >>,
      << "ScriptMethod", "METHOD_DOCKER_CLI", "DOCKER_CLI" >>,
      << "ScriptMethod", "METHOD_PYCARDANO", "PYCARDANO" >>,
      << "TransactionStatus", "NOT_YET_SUBMITTED", "NOT_YET_SUBMITTED" >>,
      << "TransactionStatus", "SUBMISSION_ONGOING", "SUBMISSION_ONGOING" >>,
      << "TransactionStatus", "TTL_EXPIRED", "TTL_EXPIRED" >>,
      << "TransactionStatus", "SUBMISSION_DONE", "SUBMISSION_DONE" >>,
      << "DustCollectionMethod", "COLLECT_TO_SOURCE", "COLLECT_TO_SOURCE" >>,
      << "DustCollectionMethod", "COLLECT_PER_ADDRESS", "COLLECT_PER_ADDRESS" >> }

MembersOf(enum) == { Member(t[1], t[2]) : t \in { u \in EnumTable : u[1] = enum } }

\* TransactionPlanEncoder.default on an enum member: o.value.
EnumValue(o) == (CHOOSE t \in EnumTable : t[1] = o.enum /\ t[2] = o.name)[3]

\* Enum(value): the member with that value; ValueError when there is none.
HasValue(enum, value) == \E t \in EnumTable : t[1] = enum /\ t[3] = value

EnumByValue(enum, value) ==
    LET t == CHOOSE u \in EnumTable : u[1] = enum /\ u[3] = value
    IN  Member(t[1], t[2])

\* The objects of classes.py with all their attributes.
InputUTXOObject(address, tx_hash, tx_index, amount, dust_collected_utxo) ==
    [address |-> address, tx_hash |-> tx_hash, tx_index |-> tx_index,
     amount |-> amount, dust_collected_utxo |-> dust_collected_utxo]

PreparationDetailObject(prep_input, prep_output, submission_status, tx_hash_id, reward_details) ==
    [prep_input |-> prep_input, prep_output |-> prep_output,
     reward_details |-> reward_details,
     submission_status |-> submission_status, tx_hash_id |-> tx_hash_id]

PaymentGroupObject(index, payment_details, amount, fee, tx_size, submission_status, tx_hash_id) ==
    [payment_details |-> payment_details, amount |-> amount, fee |-> fee,
     tx_size |-> tx_size, index |-> index,
     submission_status |-> submission_status, tx_hash_id |-> tx_hash_id]

SourceAddressDetail(address, signing_key_file, is_main_source_address) ==
    [address |-> address, signing_key_file |-> signing_key_file,
     is_main_source_address |-> is_main_source_address]

\* TransactionPlan.json: TransactionPlanEncoder turns every object into the
\* dictionary of its attributes and every enum member into its value.
EncodeInputs(utxos) ==
    [i \in 1..Len(utxos) |->
        [address |-> utxos[i].address, tx_hash |-> utxos[i].tx_hash,
         tx_index |-> utxos[i].tx_index, amount |-> utxos[i].amount,
         dust_collected_utxo |-> utxos[i].dust_collected_utxo]]

EncodePayments(payments) ==
    [i \in 1..Len(payments) |->
        [address |-> payments[i].address, amount |-> payments[i].amount]]

EncodePreparationDetail(o) ==
    [prep_input |-> EncodeInputs(o.prep_input),
     prep_output |-> EncodePayments(o.prep_output),
     reward_details |-> o.reward_details,
     submission_status |-> EnumValue(o.submission_status),
     tx_hash_id |-> o.tx_hash_id]

TransactionPlanJson(o) ==
    [uuid |-> o.uuid,
     prep_detail |-> EncodePreparationDetail(o.prep_detail),
     group_details |->
         [i \in 1..Len(o.group_details) |->
             [payment_details |-> EncodePayments(o.group_details[i].payment_details),
              amount |-> o.group_details[i].amount,
              fee |-> o.group_details[i].fee,
              tx_size |-> o.group_details[i].tx_size,
              index |-> o.group_details[i].index,
              submission_status |-> EnumValue(o.group_details[i].submission_status),
              tx_hash_id |-> o.group_details[i].tx_hash_id]],
     metadata |-> o.metadata,
     network |-> EnumValue(o.network),
     script_method |-> EnumValue(o.script_method),
     allowed_ttl_slots |-> o.allowed_ttl_slots,
     source_details |-> o.source_details,
     add_change_to_fee |-> o.add_change_to_fee,
     dust_group_details |->
         [d \in 1..Len(o.dust_group_details) |->
             [address |-> o.dust_group_details[d].address,
              groups |->
                  [i \in 1..Len(o.dust_group_details[d].groups) |->
                      EncodePreparationDetail(o.dust_group_details[d].groups[i])]]],
     dust_collection_method |-> EnumValue(o.dust_collection_method),
     dust_collection_threshold |-> o.dust_collection_threshold,
     filename |-> o.filename]

\* from_transaction_plan_file, lines 199-215 and 280-300.
LoadInputs(prep_input) ==
    [i \in 1..Len(prep_input) |->
        InputUTXOObject(prep_input[i].address, prep_input[i].tx_hash,
                        prep_input[i].tx_index, prep_input[i].amount,
                        prep_input[i].dust_collected_utxo)]

LoadPayments(prep_output) ==
    [i \in 1..Len(prep_output) |->
        PaymentDetail(prep_output[i].address, prep_output[i].amount)]

\* Lines 279-305: a dust batch is rebuilt without reward_details, which
\* PreparationDetail then sets to its default, the empty dictionary.
LoadDustPreparationDetail(dust_prep_detail) ==
    PreparationDetailObject(
        LoadInputs(dust_prep_detail.prep_input),
        LoadPayments(dust_prep_detail.prep_output),
        EnumByValue("TransactionStatus", dust_prep_detail.submission_status),
        dust_prep_detail.tx_hash_id, NoRewards)

\* A loader of the preparation transaction that drops its reward details,
\* as the loader of the dust batches does.
LoadPreparationDetailWithoutRewards(prep_details) ==
    LoadDustPreparationDetail(prep_details)

\* Lines 198-221: the preparation transaction.
LoadPreparationDetail(prep_details) ==
    PreparationDetailObject(
        LoadInputs(prep_details.prep_input),
        LoadPayments(prep_details.prep_output),
        EnumByValue("TransactionStatus", prep_details.submission_status),
        prep_details.tx_hash_id, prep_details.reward_details)

\* The statuses and enum values of the file are values of their enums.
EnumValuesKnown(details) ==
    /\ HasValue("TransactionStatus", details.prep_detail.submission_status)
    /\ \A i \in 1..Len(details.group_details) :
           HasValue("TransactionStatus", details.group_details[i].submission_status)
    /\ \A d \in 1..Len(details.dust_group_details) :
           \A i \in 1..Len(details.dust_group_details[d].groups) :
               HasValue("TransactionStatus",
                        details.dust_group_details[d].groups[i].submission_status)
    /\ HasValue("CardanoNetwork", details.network)
    /\ HasValue("ScriptMethod", details.script_method)
    /\ HasValue("DustCollectionMethod", details.dust_collection_method)

\* from_transaction_plan_file: the plan built from the file's JSON; its
\* filename is the name the file was opened under (line 271).
FromTransactionPlanFile(transaction_plan_filename, details) ==
    IF ~EnumValuesKnown(details)
    THEN [status |-> "raised", error |-> "ValueError"]
    ELSE [status |-> "returned", error |-> "none",
          plan |->
            [uuid |-> details.uuid,
             prep_detail |-> LoadPreparationDetail(details.prep_detail),
             group_details |->
                 [i \in 1..Len(details.group_details) |->
                     PaymentGroupObject(
                         details.group_details[i].index,
                         LoadPayments(details.group_details[i].payment_details),
                         details.group_details[i].amount,
                         details.group_details[i].fee,
                         details.group_details[i].tx_size,
                         EnumByValue("TransactionStatus",
                                     details.group_details[i].submission_status),
                         details.group_details[i].tx_hash_id)],
             metadata |-> details.metadata,
             network |-> EnumByValue("CardanoNetwork", details.network),
             script_method |-> EnumByValue("ScriptMethod", details.script_method),
             allowed_ttl_slots |-> details.allowed_ttl_slots,
             source_details |->
                 [i \in 1..Len(details.source_details) |->
                     SourceAddressDetail(
                         details.source_details[i].address,
                         details.source_details[i].signing_key_file,
                         details.source_details[i].is_main_source_address)],
             add_change_to_fee |-> details.add_change_to_fee,
             dust_group_details |->
                 [d \in 1..Len(details.dust_group_details) |->
                     [address |-> details.dust_group_details[d].address,
                      groups |->
                          [i \in 1..Len(details.dust_group_details[d].groups) |->
                              LoadDustPreparationDetail(
                                  details.dust_group_details[d].groups[i])]]],
             dust_collection_method |->
                 EnumByValue("DustCollectionMethod", details.dust_collection_method),
             dust_collection_threshold |-> details.dust_collection_threshold,
             filename |-> transaction_plan_filename]]

\* tx_hash_id is empty until the script has written the transaction id.
HashFor(status) == IF status.name = "NOT_YET_SUBMITTED" THEN "" ELSE "ff01"

PlaceholderHash == "0000"

DustBatchObject(address, tx_index, chained, status) ==
    PreparationDetailObject(
        << InputUTXOObject(address, "cd34", tx_index, 6, FALSE) >>
            \o (IF chained
                THEN << InputUTXOObject(address, PlaceholderHash, 0, 5, TRUE) >>
                ELSE << >>),
        << PaymentDetail(address, IF chained THEN 10 ELSE 5) >>,
        status, HashFor(status), NoRewards)

\* The default name, <uuid>_transaction_plan.json.
DefaultFilename == "5f1c_transaction_plan.json"

\* The plans generate_script_process writes: fresh ones, and ones loaded from
\* a plan file that a script has updated.  Preparation transactions with no,
\* one or two inputs; up to MaxGroups groups; no dust, one batch, or chained
\* batches under two addresses.
TransactionPlanObjects ==
    LET statuses == MembersOf("TransactionStatus")
        fresh == Member("TransactionStatus", "NOT_YET_SUBMITTED")
        ongoing == Member("TransactionStatus", "SUBMISSION_ONGOING")
        done == Member("TransactionStatus", "SUBMISSION_DONE")
        prep_transactions ==
            { << << >>, << >> >>,
              << << InputUTXOObject(SourceAddress, "ab12", 0, 9, FALSE) >>,
                 << PaymentDetail(SourceAddress, 3) >> >>,
              << << InputUTXOObject(SourceAddress, "ab12", 1, 9, FALSE),
                    InputUTXOObject(SourceAddress, PlaceholderHash, 0, 7, TRUE) >>,
                 << PaymentDetail(SourceAddress, 3),
                    PaymentDetail(SourceAddress, 6) >> >> }
        preps ==
            { PreparationDetailObject(t[1], t[2], st, HashFor(st), rd) :
                t \in prep_transactions, st \in statuses, rd \in StakeRewards }
        groups ==
            { [i \in 1..Len(sts) |->
                  PaymentGroupObject(i - 1, << PaymentDetail(ShortAddress, 2) >>,
                                     2, 1, 4, sts[i], HashFor(sts[i]))] :
                sts \in SeqsUpTo({ fresh, done }, MaxGroups) }
        dusts ==
            { << >> }
            \cup { << [address |-> SourceAddress,
                       groups |->
                           << DustBatchObject(SourceAddress, 0, FALSE, st) >>] >> :
                    st \in statuses }
            \cup { << [address |-> SourceAddress,
                       groups |->
                           << DustBatchObject(SourceAddress, 0, FALSE, st),
                              DustBatchObject(SourceAddress, 1, TRUE, st) >>],
                      [address |-> OtherSourceAddress,
                       groups |->
                           << DustBatchObject(OtherSourceAddress, 2, FALSE, st) >>] >> :
                    st \in { fresh, ongoing } }
        source_details ==
            << SourceAddressDetail(SourceAddress, "src.skey", TRUE),
               SourceAddressDetail(OtherSourceAddress, "src2.skey", FALSE) >>
    IN  { [uuid |-> "5f1c", prep_detail |-> prep, group_details |-> gs,
           metadata |-> md, network |-> nw, script_method |-> sm,
           allowed_ttl_slots |-> 1000, source_details |-> source_details,
           add_change_to_fee |-> acf, dust_group_details |-> dust,
           dust_collection_method |-> dcm, dust_collection_threshold |-> 5,
           filename |-> DefaultFilename] :
            prep \in preps, gs \in groups,
            md \in { [present |-> FALSE], [present |-> TRUE, msg |-> "payout"] },
            nw \in MembersOf("CardanoNetwork"), sm \in MembersOf("ScriptMethod"),
            acf \in BOOLEAN, dust \in dusts,
            dcm \in MembersOf("DustCollectionMethod") }

\* The file is loaded under the plan's own name or through another path.
PlanFileInit ==
    /\ GroupIdle
    /\ PlanIdle
    /\ RunIdle
    /\ call_result = [status |-> "idle"]
    /\ call_args \in
        { [function |-> "from_transaction_plan_file", p |-> p,
           transaction_plan_filename |-> fn] :
            p \in TransactionPlanObjects,
            fn \in { DefaultFilename, "plans/5f1c_transaction_plan.json" } }

\* The file holds p.json() and is loaded under transaction_plan_filename.
CallFromTransactionPlanFile ==
    /\ call_args.function = "from_transaction_plan_file"
    /\ call_result.status = "idle"
    /\ call_result' =
           FromTransactionPlanFile(call_args.transaction_plan_filename,
                                   TransactionPlanJson(call_args.p))
    /\ UNCHANGED << group_vars, plan_vars, run_vars, call_args >>

PlanFileNext == CallFromTransactionPlanFile

SpecPlanFile == PlanFileInit /\ [][PlanFileNext]_vars

(***************************************************************************)
(* The argument checks of the core operations (specification               *)
(* SpecValidate).  A call has at most one faulty argument, << name, fault  *)
(* >>: a value of the wrong type, an unsupported network or method, or an  *)
(* empty list; every other argument is valid and the method is a CLI       *)
(* method.  The code of an operation up to its first effect that does not  *)
(* depend on a checked argument is a sequence of steps in the order in     *)
(* which the code reaches them:                                            *)
(*   << "check", name, fault, error >>  raises error if that argument has  *)
(*                                      that fault;                        *)
(*   << "effect", command, file >>      runs an external command, or       *)
(*                                      writes a file; file is "none" or   *)
(*                                      the file created or deleted.       *)
(***************************************************************************)
\* group_output_utxo, lines 124-151: the method is checked by
\* get_protocol_parameters, the emptiness of the list only by
\* get_transaction_byte_size, after the protocol parameters were queried.
GroupOutputUtxoSteps ==
    << << "check", "network", "unsupported", "InvalidNetwork" >>,
       << "check", "output_list", "wrong_type", "InvalidType" >>,
       << "check", "method", "unsupported", "InvalidMethod" >>,
       << "effect", "query protocol-parameters", "none" >>,
       << "check", "output_list", "empty", "EmptyList" >>,
       << "effect", "transaction build-raw", "draft" >> >>

\* preparation_step, lines 206-257: four type checks, the payments file is
\* parsed (EmptyList, line 106), then get_wallet_utxo checks the network and
\* the method before it queries the node.
PreparationStepSteps ==
    << << "check", "source_address", "wrong_type", "InvalidType" >>,
       << "check", "source_details", "wrong_type", "InvalidType" >>,
       << "check", "payments_utxo_file", "wrong_type", "InvalidType" >>,
       << "check", "include_rewards", "wrong_type", "InvalidType" >>,
       << "check", "payments_utxo_file", "empty", "EmptyList" >>,
       << "check", "network", "unsupported", "InvalidNetwork" >>,
       << "check", "method", "unsupported", "InvalidMethod" >>,
       << "effect", "query utxo", "none" >> >>

\* dust_collect, lines 433-476 and 608-619: payment_group_details is not
\* checked, and with no input UTxO dust_groups[-1] raises IndexError.
DustCollectSteps ==
    << << "check", "input_utxos", "wrong_type", "InvalidType" >>,
       << "check", "transaction_draft_filename", "wrong_type", "InvalidType" >>,
       << "check", "max_tx_size", "wrong_type", "InvalidType" >>,
       << "check", "source_address", "wrong_type", "InvalidType" >>,
       << "check", "source_details", "wrong_type", "InvalidType" >>,
       << "check", "dust_collection_threshold", "wrong_type", "InvalidType" >>,
       << "check", "dust_collection_method", "wrong_type", "InvalidType" >>,
       << "check", "reward_details", "wrong_type", "InvalidType" >>,
       << "check", "network", "unsupported", "InvalidNetwork" >>,
       << "check", "method", "unsupported", "InvalidMethod" >>,
       << "check", "input_utxos", "empty", "IndexError" >>,
       << "effect", "transaction build-raw", "draft" >> >>

\* adjust_utxos called with one payment group, lines 660-691 and 697-795:
\* prep_tx_file and the method are not checked at the boundary; the single
\* group is not measured, delete_temp_file checks the method (line 601) and
\* removes prep_tx_file, which fails for a prep_tx_file that is no file name
\* (line 593); the draft of the preparation transaction is built next.
AdjustUtxosSteps ==
    << << "check", "output_utxo_details", "wrong_type", "InvalidType" >>,
       << "check", "input_utxo_list", "wrong_type", "InvalidType" >>,
       << "check", "source_address", "wrong_type", "InvalidType" >>,
       << "check", "max_tx_size", "wrong_type", "InvalidType" >>,
       << "check", "allow_ttl_slots", "wrong_type", "InvalidType" >>,
       << "check", "reward_details", "wrong_type", "InvalidType" >>,
       << "check", "network", "unsupported", "InvalidNetwork" >>,
       << "check", "method", "unsupported", "InvalidMethod" >>,
       << "effect", "rm", "prep_tx_file" >>,
       << "check", "prep_tx_file", "wrong_type", "InvalidFileError" >>,
       << "check", "output_utxo_details", "empty", "EmptyList" >>,
       << "effect", "transaction build-raw", "draft" >>,
       << "effect", "transaction calculate-min-fee", "none" >>,
       << "effect", "rm", "draft" >>,
       << "check", "input_utxo_list", "empty", "InsufficientBalance" >> >>

\* generate_bash_script, lines 999-1070: six type checks, command_prefix
\* and network_flag check the method and the network, os.path.split raises
\* TypeError for a metadata file that is no string, then the tip is queried.
GenerateBashScriptSteps ==
    << << "check", "transaction_plan", "wrong_type", "InvalidType" >>,
       << "check", "signing_key_file_details", "wrong_type", "InvalidType" >>,
       << "check", "source_address", "wrong_type", "InvalidType" >>,
       << "check", "allow_ttl_slots", "wrong_type", "InvalidType" >>,
       << "check", "store_in_file", "wrong_type", "InvalidType" >>,
       << "check", "add_comments", "wrong_type", "InvalidType" >>,
       << "check", "method", "unsupported", "InvalidMethod" >>,
       << "check", "network", "unsupported", "InvalidNetwork" >>,
       << "check", "metadata_file", "wrong_type", "TypeError" >>,
       << "effect", "query tip", "none" >> >>

\* get_transaction_byte_size, lines 771-806 and 980.
GetTransactionByteSizeSteps ==
    << << "check", "input_arg", "wrong_type", "InvalidType" >>,
       << "check", "output_arg", "wrong_type", "InvalidType" >>,
       << "check", "input_arg", "empty", "EmptyList" >>,
       << "check", "output_arg", "empty", "EmptyList" >>,
       << "check", "network", "unsupported", "InvalidNetwork" >>,
       << "check", "signing_key_files", "wrong_type", "InvalidType" >>,
       << "check", "reward_details", "wrong_type", "InvalidType" >>,
       << "check", "method", "unsupported", "InvalidMethod" >>,
       << "effect", "transaction build-raw", "draft" >> >>

\* The parameters of every core operation, with the sorts of value each one
\* takes, and the steps of its code.
CoreOperations ==
    [group_output_utxo |->
         [steps |-> GroupOutputUtxoSteps,
          lists |-> { "output_list" }, others |-> {}],
     preparation_step |->
         [steps |-> PreparationStepSteps,
          lists |-> { "payments_utxo_file" },
          others |-> { "source_address", "source_details", "include_rewards" }],
     dust_collect |->
         [steps |-> DustCollectSteps,
          lists |-> { "input_utxos" },
          others |-> { "transaction_draft_filename", "max_tx_size",
                       "source_address", "source_details",
                       "payment_group_details", "dust_collection_method",
                       "dust_collection_threshold", "reward_details" }],
     adjust_utxos |->
         [steps |-> AdjustUtxosSteps,
          lists |-> { "output_utxo_details", "input_utxo_list" },
          others |-> { "prep_tx_file", "source_address", "max_tx_size",
                       "reward_details", "allow_ttl_slots" }],
     generate_bash_script |->
         [steps |-> GenerateBashScriptSteps,
          lists |-> {},
          others |-> { "transaction_plan", "signing_key_file_details",
                       "source_address", "metadata_file", "allow_ttl_slots",
                       "store_in_file", "add_comments" }],
     get_transaction_byte_size |->
         [steps |-> GetTransactionByteSizeSteps,
          lists |-> { "input_arg", "output_arg" },
          others |-> { "reward_details", "signing_key_files" }]]

\* Python's evaluation of the steps: the first check that the faulty
\* argument fails raises; the effects before it have happened.
RECURSIVE RunChecked(_, _, _)
RunChecked(steps, fault, effects) ==
    IF steps = << >>
    THEN [status |-> "proceeded", error |-> "none", effects |-> effects]
    ELSE LET step == Head(steps)
         IN  IF step[1] = "effect"
             THEN RunChecked(Tail(steps), fault,
                             Append(effects, << step[2], step[3] >>))
             ELSE IF << step[2], step[3] >> = fault
             THEN [status |-> "raised", error |-> step[4], effects |-> effects]
             ELSE RunChecked(Tail(steps), fault, effects)

ValidateInit ==
    /\ GroupIdle
    /\ PlanIdle
    /\ RunIdle
    /\ call_args \in
        { [function |-> f, fault |-> x] :
            f \in DOMAIN CoreOperations, x \in { << "none", "none" >> } } \cup
        UNION { { [function |-> f, fault |-> << a, k >>] :
                    a \in CoreOperations[f].lists, k \in { "wrong_type", "empty" } }
                \cup
                { [function |-> f, fault |-> << a, "wrong_type" >>] :
                    a \in CoreOperations[f].others }
                \cup
                { [function |-> f, fault |-> << a, "unsupported" >>] :
                    a \in { "network", "method" } } :
                f \in DOMAIN CoreOperations }
    /\ call_result = [status |-> "idle"]

CallCoreOperation ==
    /\ call_result.status = "idle"
    /\ call_args.function \in DOMAIN CoreOperations
    /\ call_result' = RunChecked(CoreOperations[call_args.function].steps,
                                 call_args.fault, << >>)
    /\ UNCHANGED << group_vars, plan_vars, run_vars, call_args >>

ValidateNext == CallCoreOperation

SpecValidate == ValidateInit /\ [][ValidateNext]_vars

(***************************************************************************)
(* adjust_utxos called on its own (specification SpecAdjust) with any      *)
(* grouping of the payments, each group carrying the amount and the fee    *)
(* the fee oracle gives for its payments, as preparation_step fills them   *)
(* in.                                                                     *)
(***************************************************************************)
AdjustInit ==
    /\ GroupIdle
    /\ PlanIdle
    /\ RunIdle
    /\ call_args \in
        { [function |-> "adjust_utxos",
           output_utxo_details |-> OutputGroupDetails(g, q),
           input_utxo_list |->
               SortDesc([i \in 1..Len(w) |-> InputUTXO(SourceAddress, w[i], FALSE)]),
           reward_details |-> NoRewards, pp |-> q] :
            g \in SeqsUpTo(SeqsUpTo(PaymentKinds, MaxPayments) \ { << >> },
                           MaxGroups) \ { << >> },
            w \in { x \in Wallets : Len(x) \in 1..2 }, q \in ProtocolParameters }
    /\ call_result = [status |-> "idle"]

CallAdjustUtxos ==
    /\ call_result.status = "idle"
    /\ call_args.function = "adjust_utxos"
    /\ LET r == AdjustUtxos(call_args.output_utxo_details, call_args.input_utxo_list,
                            call_args.reward_details, call_args.pp)
       IN  call_result' =
               [status |-> IF r.error = "none" THEN "returned" ELSE "raised",
                error |-> r.error, plan |-> r.plan]
    /\ UNCHANGED << group_vars, plan_vars, run_vars, call_args >>

AdjustNext == CallAdjustUtxos

SpecAdjust == AdjustInit /\ [][AdjustNext]_vars

(***************************************************************************)
(* Properties of group_output_utxo (specification SpecGroup).              *)
(***************************************************************************)
GroupReturned == group_result.status = "ok"

GroupSize(group) == GetTransactionByteSize(1, group, FALSE).size

\* C1: whenever group_output_utxo returns, the concatenation of the returned
\* groups, in order, is exactly the input payment list: nothing is dropped,
\* nothing is duplicated and the input order is kept inside every group.
C1_GroupsPartitionInput ==
    GroupReturned => Concat(group_result.groups) = output_list

\* A call that returned at least two groups, none of them empty.
C1_Witness ==
    /\ GroupReturned
    /\ Len(group_result.groups) >= 2
    /\ \A i \in 1..Len(group_result.groups) : Len(group_result.groups[i]) >= 1

\* Every payment of the input fits in a transaction of its own.
EveryPaymentFitsAlone ==
    \A i \in 1..Len(output_list) : GroupSize(<< output_list[i] >>) <= max_tx_size

\* C2: every group that group_output_utxo returns, measured as a one-input
\* transaction paying that group's payments, has byte size <= max_tx_size.
\* Stated here for the inputs on which a fitting grouping exists (every
\* payment fits alone), the case in which the claim leaves no room for doubt.
C2_EveryGroupFits ==
    (GroupReturned /\ EveryPaymentFitsAlone) =>
        \A i \in 1..Len(group_result.groups) :
            GroupSize(group_result.groups[i]) <= max_tx_size

(***************************************************************************)
(* Properties of plan generation (specification SpecPlan).                 *)
(***************************************************************************)
\* C3: for the plan returned by adjust_utxos and the preparation transaction
\* the script builds from it, the input amounts plus the reward withdrawal
\* equal the output amounts (the change output included when one is emitted)
\* plus the preparation fee, exactly.
C3_PrepTransactionBalanced ==
    script_file.written =>
        SumAmount(script_file.prep_tx.inputs) + script_file.prep_tx.withdrawal
            = SumAmount(script_file.prep_tx.outputs) + script_file.prep_tx.fee

\* A script whose preparation transaction spends two wallet UTxOs and a reward
\* withdrawal and emits a positive change output.
C3_Witness ==
    /\ script_file.written
    /\ script_file.prep_tx.change_emitted
    /\ script_file.prep_tx.withdrawal > 0
    /\ Len(script_file.prep_tx.inputs) >= 2
    /\ script_file.prep_tx.outputs[Len(script_file.prep_tx.outputs)].amount > 0

\* What adjust_utxos had at its disposal: the wallet it was given plus rewards.
AdjustInputTotal ==
    SumAmount(init_details.wallet_utxos)
    + init_details.stake_reward_details.stake_amount

\* C9 (its second half): when the total wallet input is exactly the outputs
\* plus fee of a preparation transaction adjust_utxos has accepted as complete
\* and fitting, planning succeeds and returns a plan.
C9_ExactBalanceSucceeds ==
    (adjusted.error # "idle" /\ AdjustInputTotal \in adjusted.accepted)
        => adjusted.error = "none"

\* The payments a plan pays: those of its groups and those the preparation
\* transaction pays directly.
PlanPayments(plan) ==
    Concat([i \in 1..Len(plan.group_details) |-> plan.group_details[i].payment_details])
    \o SelectSeq(plan.prep_output, LAMBDA o : o.address # SourceAddress)

Occurrences(s, x) == Cardinality({i \in 1..Len(s) : s[i] = x})

\* A complete plan pays every payment of the payments file exactly once.
PlanComplete(plan) ==
    \A k \in PaymentKinds :
        Occurrences(PlanPayments(plan), k) = Occurrences(args.payments, k)

\* C10: when plan generation fails at any stage, no plan file and no script
\* file exists and exactly one error has been printed; a plan file exists only
\* once adjust_utxos has returned a complete plan, and it holds that plan.
C10_NoPartialPlan ==
    /\ pc = "failed" =>
           /\ ~plan_file.written
           /\ ~script_file.written
           /\ Len(console) = 1
    /\ pc = "hung" => (~plan_file.written /\ ~script_file.written)
    /\ plan_file.written =>
           /\ adjusted.error = "none"
           /\ plan_file.plan = adjusted.plan
           /\ PlanComplete(plan_file.plan)
    /\ script_file.written => plan_file.written

(***************************************************************************)
(* Claims about the generated script and its runs (SpecRun)                *)
(***************************************************************************)
Regenerated == run.pc # "idle" /\ script_file.generation > 1

\* C4: a script regenerated from a saved plan file has no build, sign,
\* submit or status-update step for a sub-transaction the file records as
\* SUBMISSION_DONE, and no run changes the status of such a sub-transaction.
C4_DoneIsSkipped ==
    Regenerated =>
        /\ \A i \in 1..Len(script_file.dust) :
              script_file.dust[i].from_status = SubmissionDone =>
                  /\ ~script_file.dust[i].create
                  /\ ~script_file.dust[i].sign
                  /\ ~script_file.dust[i].call
        /\ script_file.prep.from_status = SubmissionDone =>
              /\ ~script_file.prep.build
              /\ ~script_file.prep.sign
              /\ ~script_file.prep.post
        /\ \A g \in 1..Len(script_file.groups) :
              script_file.groups[g].from_status = SubmissionDone =>
                  /\ ~script_file.groups[g].build
                  /\ ~script_file.groups[g].sign
                  /\ ~script_file.groups[g].submit
                  /\ ~script_file.groups[g].polled
        /\ \A t \in hist.transitions : t[2] # SubmissionDone

AllowedTransitions ==
    { << NotYetSubmitted, SubmissionOngoing >>,
      << SubmissionOngoing, SubmissionDone >>,
      << SubmissionOngoing, TtlExpired >>,
      << TtlExpired, SubmissionOngoing >> }

\* C5: over all runs, kills and regenerations, the status of a
\* sub-transaction in the plan file changes only from NOT_YET_SUBMITTED to
\* SUBMISSION_ONGOING, from SUBMISSION_ONGOING to SUBMISSION_DONE or
\* TTL_EXPIRED, and from TTL_EXPIRED to SUBMISSION_ONGOING.
C5_StatusTransitions ==
    \A t \in hist.transitions : << t[2], t[3] >> \in AllowedTransitions

\* C6: a script regenerated from a plan file that records a sub-transaction
\* as SUBMISSION_ONGOING has no build, sign or submit step for it; it polls
\* for it, with the transaction id recorded in the file.
C6_OngoingOnlyPolls ==
    Regenerated =>
        /\ \A i \in 1..Len(script_file.dust) :
              script_file.dust[i].from_status = SubmissionOngoing =>
                  /\ ~script_file.dust[i].create
                  /\ ~script_file.dust[i].sign
                  /\ script_file.dust[i].call
                  /\ script_file.dust[i].straight_to_poll
                  /\ script_file.dust_function_defined
                  /\ script_file.dust[i].txid = script_file.dust[i].from_hash
        /\ script_file.prep.from_status = SubmissionOngoing =>
              /\ ~script_file.prep.build
              /\ ~script_file.prep.sign
              /\ script_file.prep.submit = "echo"
              /\ script_file.prep.post
              /\ script_file.prep.txid = script_file.prep.from_hash
        /\ \A g \in 1..Len(script_file.groups) :
              script_file.groups[g].from_status = SubmissionOngoing =>
                  /\ ~script_file.groups[g].build
                  /\ ~script_file.groups[g].sign
                  /\ ~script_file.groups[g].submit
                  /\ script_file.groups[g].polled
                  /\ script_file.groups[g].txid = script_file.groups[g].from_hash

\* C7: a sub-transaction whose confirmation a script has started to poll for
\* is recorded in the plan file as SUBMISSION_ONGOING or a later status,
\* never as NOT_YET_SUBMITTED, so that a kill at any point leaves it so.
C7_SubmittedIsRecorded ==
    \A subtx \in hist.polling : StatusOf(plan_file, subtx) # NotYetSubmitted

\* C8: no submit command runs before the transaction it spends from is done:
\* dust batch i+1 after batch i, the preparation transaction after the last
\* dust batch, a group transaction after the preparation transaction.
C8_SubmitInOrder == hist.premature = {}

(***************************************************************************)
(* Properties of dust_collect (specification SpecDust).                    *)
(***************************************************************************)
DustReturned ==
    call_args.function = "dust_collect" /\ call_result.status = "returned"

\* The fee the batch was charged: the oracle's answer for its shape.
BatchFee(batch) ==
    GetTransactionFee(Len(batch.prep_input), 1,
                      Cardinality(AddressesOf(batch.prep_input)), call_args.pp).fee

\* The synthetic inputs of a batch.
SyntheticInputs(batch) ==
    { i \in 1..Len(batch.prep_input) : batch.prep_input[i].dust_collected_utxo }

\* The pairs (entry of the map, i) such that the entry has batches i and i+1.
ChainedPairs ==
    { << d, i >> \in (1..MaxWallet) \X (1..MaxWallet) :
        /\ d <= Len(call_result.dust_group_details)
        /\ i + 1 <= Len(call_result.dust_group_details[d].groups) }

\* The statement as written: the synthetic input of batch i+1 carries batch i's
\* output amount minus batch i's fee.
C11_SyntheticIsOutputMinusFee ==
    DustReturned =>
        \A pair \in ChainedPairs :
            LET groups == call_result.dust_group_details[pair[1]].groups
                batch == groups[pair[2]]
                next == groups[pair[2] + 1]
            IN  \A k \in SyntheticInputs(next) :
                    next.prep_input[k].amount
                        = batch.prep_output[1].amount - BatchFee(batch)

\* C11 (amended): in the dust group map dust_collect returns, batch i+1 of an
\* address has exactly one synthetic input, its last; that input carries batch
\* i's output amount and address, and batch i's output amount is the total of
\* batch i's inputs minus batch i's own fee.
C11_SyntheticIsPreviousOutput ==
    DustReturned =>
        \A pair \in ChainedPairs :
            LET groups == call_result.dust_group_details[pair[1]].groups
                batch == groups[pair[2]]
                next == groups[pair[2] + 1]
            IN  /\ SyntheticInputs(next) = { Len(next.prep_input) }
                /\ next.prep_input[Len(next.prep_input)].amount
                       = batch.prep_output[1].amount
                /\ next.prep_input[Len(next.prep_input)].address
                       = batch.prep_output[1].address
                /\ batch.prep_output[1].amount
                       = SumAmount(batch.prep_input) - BatchFee(batch)

\* A returned map in which some address has chained batches.
C11_Witness == DustReturned /\ ChainedPairs # {}

\* The target addresses of the call: the source address, or every address
\* that owns a UTxO below the threshold.
TargetAddresses ==
    IF call_args.dust_collection_method = CollectToSource
    THEN { SourceAddress }
    ELSE AddressesOf(SelectBelow(call_args.input_utxos,
                                 call_args.dust_collection_threshold))

CountIn(s, x) == Cardinality({ i \in 1..Len(s) : s[i] = x })

\* The map has exactly one entry per target address.
OneEntryPerTarget ==
    /\ AddressesOf(call_result.dust_group_details) = TargetAddresses
    /\ Len(call_result.dust_group_details) = Cardinality(TargetAddresses)

\* The revised wallet: the input UTxOs at or above the threshold, each as often
\* as in the input, and exactly one synthetic UTxO per target address.
RevisedWalletExact ==
    LET wallet == call_result.wallet_utxos
        kept == SelectAtLeast(call_args.input_utxos,
                              call_args.dust_collection_threshold)
        synthetic == { i \in 1..Len(wallet) : wallet[i].dust_collected_utxo }
    IN  /\ \A i \in (1..Len(wallet)) \ synthetic :
               CountIn(wallet, wallet[i]) = CountIn(kept, wallet[i])
        /\ \A i \in 1..Len(kept) : CountIn(wallet, kept[i]) = CountIn(kept, kept[i])
        /\ { wallet[i].address : i \in synthetic } = TargetAddresses
        /\ Cardinality(synthetic) = Cardinality(TargetAddresses)

\* C12: for any wallet UTxO list, dust_collect returns; the dust group map it
\* returns has exactly one entry per target address, and the revised wallet
\* list is exactly the input UTxOs at or above the threshold plus exactly one
\* synthetic UTxO per target address.
C12_OneAggregatePerTarget ==
    (call_args.function = "dust_collect" /\ call_result.status # "idle") =>
        /\ call_result.status = "returned"
        /\ OneEntryPerTarget
        /\ RevisedWalletExact

(***************************************************************************)
(* Properties of get_transaction_byte_size (specification SpecByteSize).   *)
(***************************************************************************)
\* C13: when a call of get_transaction_byte_size has ended, by returning or by
\* raising, none of the draft, raw and signed files it created exists.
C13_NoTemporaryFileLeft ==
    (call_args.function = "get_transaction_byte_size"
     /\ call_result.status \in { "returned", "raised" }) =>
        call_result.files = {}

(***************************************************************************)
(* Properties of the plan file round trip (specification SpecPlanFile).    *)
(***************************************************************************)
PlanLoaded ==
    call_args.function = "from_transaction_plan_file"
    /\ call_result.status = "returned"

PlanCalled ==
    call_args.function = "from_transaction_plan_file"
    /\ call_result.status # "idle"

\* The fields of a plan other than filename.
WithoutFilename(o) == [o EXCEPT !.filename = ""]

ScenarioPlanned == plan_file.written

\* The grouping step found exactly one PaymentGroup: index 0, the amount of
\* all payments, fee 100.
ScenarioOneGroupFound ==
    /\ Len(init_details.output_details) = 1
    /\ init_details.output_details[1].index = 0
    /\ init_details.output_details[1].amount = 1000 * Len(args.payments)
    /\ init_details.output_details[1].fee = 100

\* C15 as stated: in the scenario (one source UTxO of 1,000,000,000, payments
\* of 1,000 each, one group fits, flat fee of 100) the plan that is written
\* has exactly one PaymentGroup (index 0, amount = the sum of the payments,
\* 30,000 for 30 payments, fee 100), exactly one preparation input, and the
\* file is named <uuid>_transaction_plan.json.
C15_PlanHasOnePaymentGroup ==
    ScenarioPlanned =>
        /\ Len(plan_file.plan.group_details) = 1
        /\ plan_file.plan.group_details[1].index = 0
        /\ plan_file.plan.group_details[1].amount = 1000 * Len(args.payments)
        /\ plan_file.plan.group_details[1].fee = 100
        /\ Len(plan_file.plan.prep_input) = 1
        /\ plan_file.filename = << plan_file.uuid, "_transaction_plan.json" >>

\* C15 amended: in the scenario the grouping step yields exactly one
\* PaymentGroup (index 0, amount = the sum of the payments, fee 100), and
\* adjust_utxos folds that single group into the preparation transaction:
\* the written plan has no PaymentGroup, the payments are the outputs of
\* the preparation transaction, which has exactly one input (the source
\* UTxO), and the file is named <uuid>_transaction_plan.json.
C15_SingleGroupPaidByPreparation ==
    ScenarioPlanned =>
        /\ ScenarioOneGroupFound
        /\ plan_file.plan.group_details = << >>
        /\ plan_file.plan.prep_output = args.payments
        /\ plan_file.plan.prep_input = args.wallet
        /\ Len(plan_file.plan.prep_input) = 1
        /\ plan_file.filename = << plan_file.uuid, "_transaction_plan.json" >>

\* The scenario with all its payments has been planned and written.
C15_Witness ==
    /\ ScenarioPlanned
    /\ Len(args.payments) = ScenarioPayments
    /\ args.pp.max_tx_size = 16384

(***************************************************************************)
(* C16                                                                     *)
(***************************************************************************)
\* The operations called so far.
Invoked == { invoked[i] : i \in 1..Len(invoked) }

\* What preparation_step returns for the run's inputs.
InitialDetails ==
    PreparationStep(args.payments, args.wallet, args.stake_reward_details, args.pp)

\* The initial preparation draft is larger than the maximum transaction size.
DraftExceedsMax ==
    InitialDetails.error = "none" /\ InitialDetails.require_dust_collection

\* generate_transaction_plan is past its decision about dust collection.
PastDustDecision ==
    \/ pc \in { "failed", "hung", "planned", "plan_written", "done" }
    \/ pc = "prepared" /\ Len(invoked) > 1

\* C16: dust_collect is invoked exactly when the initial preparation draft
\* exceeds the maximum transaction size and dust collection is enabled; when
\* the draft exceeds the maximum and dust collection is disabled, plan
\* generation fails with a ScriptError, invokes neither dust_collect nor
\* adjust_utxos and produces no plan; when the draft does not exceed the
\* maximum, dust_collect is not invoked.
C16_DustCollectExactlyWhenRequiredAndEnabled ==
    /\ "dust_collect" \in Invoked
           => DraftExceedsMax /\ args.enable_dust_collection
    /\ (DraftExceedsMax /\ args.enable_dust_collection /\ PastDustDecision)
           => /\ "dust_collect" \in Invoked
              /\ \A i \in 1..Len(invoked) :
                     invoked[i] = "adjust_utxos" =>
                         \E j \in 1..(i - 1) : invoked[j] = "dust_collect"
    /\ (DraftExceedsMax /\ ~args.enable_dust_collection /\ PastDustDecision)
           => /\ pc = "failed"
              /\ console = << "ScriptError" >>
              /\ invoked = << "preparation_step" >>
              /\ adjusted = NotAdjusted
              /\ ~plan_file.written
              /\ ~script_file.written
    /\ ~DraftExceedsMax => "dust_collect" \notin Invoked

\* A run whose draft was too large collected dust and went on to write its
\* plan.
C16_Witness ==
    /\ DraftExceedsMax
    /\ args.enable_dust_collection
    /\ invoked = << "preparation_step", "dust_collect", "adjust_utxos" >>
    /\ plan_file.written

(***************************************************************************)
(* C17                                                                     *)
(***************************************************************************)
\* The validation error that corresponds to a faulty argument.
CorrespondingError(fault) ==
    CASE fault[2] = "wrong_type" -> "InvalidType"
      [] fault[2] = "empty" -> "EmptyList"
      [] fault[1] = "network" -> "InvalidNetwork"
      [] fault[1] = "method" -> "InvalidMethod"

\* C17: each core operation, given an argument of the wrong type, an
\* unsupported network or method, or an empty list, raises the corresponding
\* validation error before it makes any external call and without creating,
\* modifying or deleting any file.
C17_ValidationFailsFast ==
    (call_result.status # "idle" /\ call_args.fault # << "none", "none" >>)
        => /\ call_result.status = "raised"
           /\ call_result.error = CorrespondingError(call_args.fault)
           /\ call_result.effects = << >>

(***************************************************************************)
(* C18                                                                     *)
(***************************************************************************)
\* adjust_utxos has returned a plan.
PlanReturned == adjusted.error = "none"

\* The payments of the groups adjust_utxos was given.
InputGroupPayments ==
    Concat([i \in 1..Len(init_details.output_details) |->
               init_details.output_details[i].payment_details])

\* C18: in every plan returned by adjust_utxos each payment of the input
\* groups appears exactly once, in the payment_details of one PaymentGroup or
\* as a direct (non-aggregate) preparation output, and the spill that could
\* not be absorbed is in one final extra PaymentGroup: the plan has at most
\* one group more than adjust_utxos was given.
C18_EveryPaymentExactlyOnce ==
    PlanReturned =>
        /\ \A k \in PaymentKinds :
               Occurrences(PlanPayments(adjusted.plan), k)
                   = Occurrences(InputGroupPayments, k)
        /\ Len(adjusted.plan.group_details) <= Len(init_details.output_details) + 1

(***************************************************************************)
(* C19, C20                                                                *)
(***************************************************************************)
\* The PaymentGroups of the plan adjust_utxos returned (none when it raised).
ReturnedGroups ==
    IF call_args.function = "adjust_utxos" /\ call_result.status = "returned"
    THEN { call_result.plan.group_details[i] :
               i \in 1..Len(call_result.plan.group_details) }
    ELSE {}

\* C19: in every plan returned by adjust_utxos each PaymentGroup (trimmed,
\* probed with spilled payments, or the extra group) has an amount equal to
\* the sum of the amounts of its final payment_details and a fee equal to the
\* fee oracle's value for exactly those payment_details.
C19_GroupAmountAndFeeOfFinalPayments ==
    \A g \in ReturnedGroups :
        /\ g.amount = SumAmount(g.payment_details)
        /\ g.fee = GetTotalAmountPlusFee(1, g.payment_details, call_args.pp).fee

\* C20: in every plan returned by adjust_utxos every PaymentGroup, the extra
\* group included, has a measured byte size for its final payment_details
\* that is at most the maximum transaction size, and its recorded tx_size is
\* that measured size.
C20_GroupSizeMeasuredAndWithinMax ==
    \A g \in ReturnedGroups :
        /\ GetTransactionByteSize(1, g.payment_details, FALSE).size
               <= call_args.pp.max_tx_size
        /\ g.tx_size = GetTransactionByteSize(1, g.payment_details, FALSE).size

(***************************************************************************)
(* C21                                                                     *)
(***************************************************************************)
\* adjust_utxos, called on its own, has returned a plan.
AdjustReturned ==
    call_args.function = "adjust_utxos" /\ call_result.status = "returned"

\* The aggregate output that funds a group.
AggregateOutput(g) == PaymentDetail(SourceAddress, g.amount + g.fee)

\* C21: in every plan returned by adjust_utxos prep_output is one aggregate
\* output PaymentDetail(source_address, amount + fee) per PaymentGroup of
\* group_details, in index order, the extra group having exactly one such
\* line, followed only by the spilled payments that were absorbed directly;
\* there is no aggregate output that no group spends.
C21_OneAggregateOutputPerGroup ==
    AdjustReturned =>
        LET plan == call_result.plan
            n == Len(plan.group_details)
        IN  /\ Len(plan.prep_output) >= n
            /\ \A i \in 1..n :
                   plan.prep_output[i] = AggregateOutput(plan.group_details[i])
            /\ \A j \in (n + 1)..Len(plan.prep_output) :
                   plan.prep_output[j].address # SourceAddress

(***************************************************************************)
(* C22                                                                     *)
(***************************************************************************)
\* C22: every PaymentGroup g of a returned plan has g.index equal to its
\* position in group_details, prep_output[g.index] is
\* PaymentDetail(source_address, g.amount + g.fee), and the group transaction
\* of the script, which spends preparation output number g.index and pays
\* g.payment_details with fee g.fee, is exactly balanced.
C22_GroupSpendsItsOwnAggregateOutput ==
    AdjustReturned =>
        LET plan == call_result.plan
        IN  \A i \in 1..Len(plan.group_details) :
                LET g == plan.group_details[i]
                IN  /\ g.index = i - 1
                    /\ g.index + 1 <= Len(plan.prep_output)
                    /\ plan.prep_output[g.index + 1] = AggregateOutput(g)
                    /\ plan.prep_output[g.index + 1].amount
                           = SumAmount(g.payment_details) + g.fee

(***************************************************************************)
(* C23                                                                     *)
(***************************************************************************)
\* change = inputTotal - (outputs + fee) of the preparation transaction of
\* the returned plan, the fee being the oracle's fee for its inputs and
\* outputs.
ReturnedChange ==
    LET plan == call_result.plan
        fee == GetTotalAmountPlusFee(Len(plan.prep_input), plan.prep_output,
                                     call_args.pp).fee
    IN  SumAmount(plan.prep_input) + plan.reward_details.stake_amount
        - (SumAmount(plan.prep_output) + fee)

\* The change output of the preparation transaction the script builds, as a
\* set: empty when no change output is emitted.
ReturnedChangeOutput ==
    LET tx == PrepTransaction(call_result.plan, call_args.pp)
    IN  IF tx.change_emitted THEN { tx.outputs[Len(tx.outputs)].amount } ELSE {}

\* C23: if change = inputTotal - (outputs + fee) is below the minimum UTXO
\* amount then add_change_to_fee is true and no change output is emitted;
\* otherwise add_change_to_fee is false, the selected inputs plus rewards
\* cover outputs + fee + minimum amount, and the change output the script
\* emits is at least the minimum amount.
C23_ChangeBelowMinimumIsPaidAsFee ==
    AdjustReturned =>
        IF ReturnedChange < CardanoMinimumAmount
        THEN call_result.plan.add_change_to_fee /\ ReturnedChangeOutput = {}
        ELSE /\ ~call_result.plan.add_change_to_fee
             /\ \E c \in ReturnedChangeOutput : c >= CardanoMinimumAmount

(***************************************************************************)
(* C24                                                                     *)
(***************************************************************************)
\* C24: the preparation transaction of every plan returned by adjust_utxos,
\* with its selected inputs and all the outputs the script finally builds it
\* with (group outputs, the extra-group output, the directly absorbed
\* payments, and the change output when add_change_to_fee is false), has a
\* byte size of at most max_tx_size.
C24_PreparationTransactionFits ==
    (AdjustReturned /\ call_result.plan.prep_input # << >>) =>
        LET tx == PrepTransaction(call_result.plan, call_args.pp)
        IN  DraftBytes(Len(tx.inputs), tx.outputs,
                       call_result.plan.reward_details.present)
                <= call_args.pp.max_tx_size

(***************************************************************************)
(* C28                                                                     *)
(***************************************************************************)
\* What the preparation inputs of the returned plan have to cover: the
\* preparation outputs plus the oracle's fee, plus the minimum amount when
\* the script emits a change output.
ReturnedRequiredAmount ==
    LET plan == call_result.plan
        tf == GetTotalAmountPlusFee(Len(plan.prep_input), plan.prep_output,
                                    call_args.pp)
    IN  tf.amount + tf.fee
        + (IF plan.add_change_to_fee THEN 0 ELSE CardanoMinimumAmount)

\* C28: the preparation inputs of a returned plan are a prefix of the wallet
\* list, which is in descending amount order, and are a minimal covering
\* set: they cover the preparation outputs plus fee (plus the minimum change
\* when a change output is emitted) and without the last selected input they
\* would not.
C28_InputsAreMinimalCoveringPrefix ==
    (AdjustReturned /\ call_result.plan.prep_input # << >>) =>
        LET plan == call_result.plan
            wallet == call_args.input_utxo_list
            n == Len(plan.prep_input)
        IN  /\ n <= Len(wallet)
            /\ plan.prep_input = SubSeq(wallet, 1, n)
            /\ \A k \in 1..(Len(wallet) - 1) :
                   wallet[k].amount >= wallet[k + 1].amount
            /\ SumAmount(plan.prep_input) >= ReturnedRequiredAmount
            /\ SumAmount(SubSeq(wallet, 1, n - 1)) < ReturnedRequiredAmount

(***************************************************************************)
(* C25                                                                     *)
(***************************************************************************)
\* C25: for a non-empty payment list in which every payment alone fits
\* max_tx_size, group_output_utxo terminates: the capacity search ends with a
\* group size of at least 1 whose prefix fits, and the slicing loop ends
\* after finitely many non-empty chunks.
C25_GroupOutputUtxoTerminates ==
    (group_result.status # "idle" /\ output_list # << >> /\ EveryPaymentFitsAlone) =>
        /\ group_result.status = "ok"
        /\ group_result.count >= 1
        /\ GroupSize(Slice(output_list, 0, group_result.count)) <= max_tx_size
        /\ \A i \in 1..Len(group_result.groups) : group_result.groups[i] # << >>

(***************************************************************************)
(* C26                                                                     *)
(***************************************************************************)
\* C26: with fee and size oracles that are monotone in the number of inputs
\* and outputs, adjust_utxos always terminates: it returns a plan or raises
\* an error; the input-selection fixed point and the halving loop that
\* absorbs the spill both finish.
C26_AdjustUtxosTerminates ==
    (call_args.function = "adjust_utxos" /\ call_result.status # "idle") =>
        /\ call_result.status \in { "returned", "raised" }
        /\ call_result.error # "no_return"

\* A returned plan whose input selection grew to two inputs and whose
\* absorption loop was halved: of the payments of a single input group, all
\* spilled, some were absorbed directly and the others went to the extra
\* group.
C26_Witness ==
    /\ AdjustReturned
    /\ Len(call_args.output_utxo_details) = 1
    /\ Len(call_result.plan.prep_input) = 2
    /\ \E j \in 1..Len(call_result.plan.prep_output) :
           call_result.plan.prep_output[j].address # SourceAddress
    /\ call_result.plan.group_details # << >>

(***************************************************************************)
(* C27                                                                     *)
(***************************************************************************)
\* The target addresses of the call with the dust assigned to each.
DustTargets ==
    DustUtxoGroups(
        SortDesc(SelectBelow(call_args.input_utxos,
                             call_args.dust_collection_threshold)),
        SourceAddress, call_args.dust_collection_method)

\* A consolidation transaction with one dust input and one synthetic input
\* fits under max_tx_size, by the comparison dust_collect makes.
OneDustAndSyntheticFit ==
    GetTransactionByteSize(2, << PaymentDetail(SourceAddress, 1) >>, FALSE).size
        < call_args.pp.max_tx_size

\* The real (non-synthetic) inputs of a batch, in order.
RealInputs(batch) ==
    SelectSeq(batch.prep_input, LAMBDA u : ~u.dust_collected_utxo)

C29_ObservedChangeNeverExpires ==
    /\ (run.pc \in { "dust_poll", "prep_poll" } /\ run.seen) =>
           run.status = "ongoing"
    /\ run.pc = "group_poll" =>
           \A g \in 1..Len(run.utxo_status_array) :
               run.utxo_status_array[g] = "expired" =>
                   TtlPassed(ledger, script_file.generation)

(***************************************************************************)
(* C30                                                                     *)
(***************************************************************************)
PollingLoop == run.pc \in { "dust_poll", "prep_poll", "group_poll" }

\* The sub-transactions the running loop polls.
Polled ==
    IF run.pc = "dust_poll" THEN { Dust(run.index) }
    ELSE IF run.pc = "prep_poll" THEN { Prep }
    ELSE IF run.pc = "group_poll"
    THEN { Group(g) : g \in { k \in 1..Len(run.utxo_status_array) :
                                 run.utxo_status_array[k] # "absent" } }
    ELSE {}

\* A step in which a polling loop ends without the script being killed.
PollingEnds == PollingLoop /\ ~PollingLoop' /\ run'.pc # "killed"

\* C30: provided the tip eventually exceeds the ttl, every polling loop of the
\* generated script terminates, and when it does each polled sub-transaction
\* is SUCCESS or TTL_EXPIRED in the script's state and SUBMISSION_DONE or
\* TTL_EXPIRED in the plan file, never still SUBMISSION_ONGOING.
C30_PollingTerminatesSettled ==
    /\ PollingLoop ~> ~PollingLoop
    /\ [][PollingEnds =>
            /\ \A subtx \in Polled :
                   StatusOf(plan_file', subtx) \in { SubmissionDone, TtlExpired }
            /\ run.pc \in { "dust_poll", "prep_poll" } =>
                   \/ run.status = "ongoing" /\ run.seen
                   \/ run.status = "expired"
            /\ run.pc = "group_poll" =>
                   \A g \in 1..Len(run.utxo_status_array) :
                       run.utxo_status_array[g] \in { "success", "expired", "absent" }
         ]_vars

\* A run whose polling of the preparation transaction was ended by the tip
\* passing the ttl: the plan file records TTL_EXPIRED and the script exited.
C30_Witness ==
    /\ run.pc = "exited"
    /\ StatusOf(plan_file, Prep) = TtlExpired
    /\ TtlPassed(ledger, script_file.generation)

=============================================================================
